---- MODULE Spec2Model ----
(***************************************************************************)
(* Model of the VDP2 VRAM allocator and scroll-screen loading protocol of  *)
(* SaturnRingLib (srl_vdp2.hpp) and of the debug assert sink               *)
(* (srl_debug.hpp).                                                        *)
(*                                                                         *)
(* Number representation.  The target is a 32-bit machine.  A uint32_t is  *)
(* carried as the integer with the same 32-bit two's complement pattern:   *)
(* values below 2^31 are themselves, a value v >= 2^31 is carried as       *)
(* v - 2^32 (so -16 stands for 0xFFFFFFF0).  Add32 and UGeq are unsigned   *)
(* 32-bit addition and comparison on that representation.  All VRAM        *)
(* addresses are below 2^31 and are carried as themselves.                 *)
(***************************************************************************)
EXTENDS Integers, Sequences, FiniteSets, TLC

VARIABLES
    currentBot,     \* VRAM::currentBot[4]
    currentTop,     \* VRAM::currentTop[4]
    bankCycles,     \* VRAM::bankCycles[4]
    MapAddress,     \* ScrollScreen::MapAddress, per layer
    CellAddress,    \* ScrollScreen::CellAddress, per layer
    LineAddress,    \* NBG0::LineAddress, NBG1::LineAddress
    KtableAddress,  \* RBG0::KtableAddress
    TilePalette,    \* ScrollScreen::TilePalette, per layer
    Info,           \* ScrollScreen::Info, per layer
    CellAllocSize,  \* ScrollScreen::CellAllocSize, per layer
    MapAllocSize,   \* ScrollScreen::MapAllocSize, per layer
    cramUsed,       \* palette collaborator: the slots marked used
    hw,             \* display registers and VRAM contents written per layer
    op,             \* the last operation called, with its arguments
    ret,            \* what the last operation returned
    attempts,       \* the Allocate calls the last operation made, in order
    reports,        \* the messages the last operation gave to Debug::Assert
    allocs,         \* history: successful allocations since the last reset
    req,            \* history: per bank, what was requested since the last reset
    calls,          \* number of operations called so far
    masks,          \* VDP2::ActiveScrolls, ColorCalcScrolls, OffsetAScrolls,
                    \* OffsetBScrolls, TransparentScrolls
    regs,           \* display registers: what was last pushed for each mask,
                    \* and the color calculation ratio of each screen
    maskWrites,     \* the mask, ratio and coefficient-table register writes
                    \* of the last operation
    callers         \* concurrent callers of Allocate: position and locals

vars == << currentBot, currentTop, bankCycles, MapAddress, CellAddress,
           LineAddress, KtableAddress, TilePalette, Info, CellAllocSize,
           MapAllocSize, cramUsed, hw, op, ret, attempts, reports, allocs,
           req, calls, masks, regs, maskWrites, callers >>

(***************************************************************************)
(* Bounds of the model.                                                    *)
(***************************************************************************)
MaxCalls == 3

PaletteSlots == 2

(***************************************************************************)
(* Memory map and enumerations.                                            *)
(***************************************************************************)
VDP2_VRAM_A0 == 635437056

VDP2_VRAM_A1 == 635568128

VDP2_VRAM_B0 == 635699200

VDP2_VRAM_B1 == 635830272

A0 == 0

A1 == 1

B0 == 2

B1 == 3

Banks == {A0, A1, B0, B1}

NULL == 0

Unallocated == VDP2_VRAM_A0 - 1

bankBot == (A0 :> VDP2_VRAM_A0) @@ (A1 :> VDP2_VRAM_A1) @@
           (B0 :> VDP2_VRAM_B0) @@ (B1 :> VDP2_VRAM_B1)

bankTop == (A0 :> VDP2_VRAM_A1) @@ (A1 :> VDP2_VRAM_B0) @@
           (B0 :> VDP2_VRAM_B1) @@ (B1 :> VDP2_VRAM_B1 + 98304)

initBankCycles == (A0 :> -1) @@ (A1 :> -1) @@ (B0 :> -1) @@ (B1 :> 2)

NBGs == {"NBG0", "NBG1", "NBG2", "NBG3"}

Layers == NBGs \cup {"RBG0"}

LineLayers == {"NBG0", "NBG1"}

CHAR_SIZE_1x1 == 0

CHAR_SIZE_2x2 == 1

PNB_2WORD == 0

PNB_1WORD == 32768

PL_SIZE_1x1 == 0

PL_SIZE_2x1 == 1

PL_SIZE_2x2 == 3

(***************************************************************************)
(* 32-bit unsigned arithmetic.                                             *)
(***************************************************************************)
MaxInt32 == 2147483647

\* (a + b) mod 2^32
Add32(a, b) ==
    IF a >= 0 /\ b >= 0 /\ a > MaxInt32 - b
    THEN (a - MaxInt32 - 1) + (b - MaxInt32 - 1)
    ELSE IF a < 0 /\ b < 0 /\ a < (-MaxInt32 - 1) - b
    THEN (a + MaxInt32 + 1) + (b + MaxInt32 + 1)
    ELSE a + b

\* The value of a one-element set.  Used as One({F(r) : r \in {e}}) to name
\* the value of e once in F.
One(S) == CHOOSE x \in S : TRUE

\* a >= b, both unsigned
UGeq(a, b) == IF (a >= 0) = (b >= 0) THEN a >= b ELSE a < 0

\* x & m for an address x (x >= 0) and any 32-bit mask m
RECURSIVE BitAnd(_, _)
BitAnd(x, m) ==
    IF x = 0 \/ m = 0 THEN 0
    ELSE (x % 2) * (m % 2) + 2 * BitAnd(x \div 2, m \div 2)

(***************************************************************************)
(* VDP2::VRAM                                                              *)
(***************************************************************************)
\* The allocator's three tables as one value, so that the allocation
\* functions can be composed.
VramState == [ currentBot |-> currentBot, currentTop |-> currentTop,
               bankCycles |-> bankCycles ]

GetAvailable(st, bank) == st.currentTop[bank] - st.currentBot[bank]

\* The padding Allocate puts before an allocation in `bank`.
AddrOffset(st, boundary, bank) ==
    LET low == BitAnd(st.currentBot[bank], boundary - 1)
    IN  IF low # 0 THEN boundary - low ELSE 0

\* Mutants of the two tests of Allocate: no test of the cycle budget, a
\* cycle test that admits a sum of 8, no test of the free space, and a
\* free-space test that refuses an exact fit.
CyclesOk_Unchecked(st, bank, cycles) == TRUE

CyclesOk_Inclusive(st, bank, cycles) == st.bankCycles[bank] + cycles <= 8

SpaceOk_Unchecked(st, bank, need) == TRUE

SpaceOk_Strict(st, bank, need) ==
    UGeq(GetAvailable(st, bank), need) /\ GetAvailable(st, bank) # need

\* GetAvailable(bank) >= size + addrOffset
SpaceOk(st, bank, need) == UGeq(GetAvailable(st, bank), need)

\* (bankCycles[bank] + cycles) < 8
CyclesOk(st, bank, cycles) == st.bankCycles[bank] + cycles < 8

\* Result of one Allocate call: the returned address, the tables after it,
\* and a record of the call.
Allocate(st, size, boundary, bank, cycles) ==
    One({ LET need == Add32(size, addrOffset)
              ok == SpaceOk(st, bank, need) /\ CyclesOk(st, bank, cycles)
              myAddress == IF ok THEN st.currentBot[bank] + addrOffset ELSE NULL
          IN  [ ret |-> myAddress,
                st  |-> IF ok
                        THEN [st EXCEPT !.currentBot[bank] = @ + need,
                                        !.bankCycles[bank] = @ + cycles]
                        ELSE st,
                call |-> [ bank |-> bank, size |-> size, boundary |-> boundary,
                           cycles |-> cycles, pad |-> addrOffset,
                           ret |-> myAddress ] ] :
          addrOffset \in {AddrOffset(st, boundary, bank)} })

(***************************************************************************)
(* History of the allocator since the last reset (observation only).       *)
(***************************************************************************)
Capacity(bank) == bankTop[bank] - bankBot[bank]

\* Sums are kept up to SatBytes / SatCycles: only their comparison with a
\* bank's capacity and with the cycle budget is of interest.
SatBytes == 2 * (VDP2_VRAM_A1 - VDP2_VRAM_A0)

SatCycles == 4 * 8

SatAdd(x, y, lim) == IF y < 0 \/ y > lim \/ x + y > lim THEN lim ELSE x + y

reqInit(cyc) ==
    [b \in Banks |-> [size |-> 0, padded |-> 0, cycles |-> 0,
                      failed |-> FALSE, base |-> cyc[b]]]

\* req after the Allocate call c
ReqAfter(r, c) ==
    [r EXCEPT ![c.bank] =
        [ size   |-> SatAdd(@.size, c.size, SatBytes),
          padded |-> SatAdd(SatAdd(@.padded, c.size, SatBytes), c.pad, SatBytes),
          cycles |-> SatAdd(@.cycles, c.cycles, SatCycles),
          failed |-> @.failed \/ c.ret = NULL,
          base   |-> @.base ]]

RECURSIVE ReqAfterAll(_, _)
ReqAfterAll(r, cs) ==
    IF cs = << >> THEN r ELSE ReqAfterAll(ReqAfter(r, Head(cs)), Tail(cs))

Granted(cs) ==
    LET won == SelectSeq(cs, LAMBDA c : c.ret # NULL)
    IN  [i \in 1..Len(won) |->
            [bank |-> won[i].bank, addr |-> won[i].ret, size |-> won[i].size,
             cycles |-> won[i].cycles]]

(***************************************************************************)
(* Display-wide masks.  A uint16_t mask is carried as the set of the       *)
(* screens whose bit is set: mask |= ScreenON adds the screen,             *)
(* mask &= ~ScreenON removes it.                                           *)
(***************************************************************************)
MaskScreens == Layers \cup {"SPR"}

masksInit ==
    [ ActiveScrolls |-> {"NBG3", "SPR"},
      ColorCalcScrolls |-> {"NBG3", "SPR"},
      OffsetAScrolls |-> {"NBG3"},
      OffsetBScrolls |-> {"NBG3"},
      TransparentScrolls |-> {} ]

\* What the display holds before the first push.  The source does not give
\* it: it is taken to agree with the initial masks, and every ratio to be 0.
regsInit ==
    [ ActiveScrolls |-> masksInit.ActiveScrolls,
      ColorCalcScrolls |-> masksInit.ColorCalcScrolls,
      OffsetAScrolls |-> masksInit.OffsetAScrolls,
      OffsetBScrolls |-> masksInit.OffsetBScrolls,
      TransparentScrolls |-> masksInit.TransparentScrolls,
      rate |-> [s \in MaskScreens |-> 0] ]

displayVars == << masks, regs, maskWrites >>

\* A write of `value` to the register behind SGL function `reg`.
Push(reg, screen, value) == [reg |-> reg, screen |-> screen, value |-> value]

noScreen == "-"

(***************************************************************************)
(* Initial state: the static initialisers.                                 *)
(***************************************************************************)
DefaultInfo ==
    [ MapWidth |-> 0, MapHeight |-> 0, CharSize |-> CHAR_SIZE_1x1,
      ColorMode |-> "Paletted16", PlaneSize |-> PL_SIZE_1x1,
      MapMode |-> PNB_2WORD, CellByteSize |-> 0 ]

NoPalette == [held |-> FALSE, mode |-> "Paletted16", id |-> 0]

hwInit ==
    [L \in Layers |-> [planes |-> << >>, layout |-> << >>, init |-> FALSE,
                        data |-> [cell |-> NULL, map |-> NULL, mapoff |-> 0,
                                  paloff |-> 0]]]

Init ==
    /\ currentBot = bankBot
    /\ currentTop = bankTop
    /\ bankCycles = initBankCycles
    /\ MapAddress = [L \in Layers |-> Unallocated]
    /\ CellAddress = [L \in Layers |-> Unallocated]
    /\ LineAddress = [L \in LineLayers |-> Unallocated]
    /\ KtableAddress = Unallocated
    /\ TilePalette = [L \in Layers |-> NoPalette]
    /\ Info = [L \in Layers |-> DefaultInfo]
    /\ CellAllocSize = [L \in Layers |-> -1]
    /\ MapAllocSize = [L \in Layers |-> -1]
    /\ cramUsed = {}
    /\ hw = hwInit
    /\ op = [name |-> "start"]
    /\ ret = NULL
    /\ attempts = << >>
    /\ reports = << >>
    /\ allocs = << >>
    /\ req = reqInit(initBankCycles)
    /\ calls = 0
    /\ masks = masksInit
    /\ regs = regsInit
    /\ maskWrites = << >>
    /\ callers = << >>

(***************************************************************************)
(* Operations.                                                             *)
(***************************************************************************)
\* The model follows the program for MaxCalls operations.
CanCall == calls < MaxCalls

\* What every operation records about itself.
Called(o, r, cs, msgs) ==
    /\ calls' = calls + 1
    /\ op' = o
    /\ ret' = r
    /\ attempts' = cs
    /\ reports' = msgs

SetVram(st) ==
    /\ currentBot' = st.currentBot
    /\ currentTop' = st.currentTop
    /\ bankCycles' = st.bankCycles

layerVars == << MapAddress, CellAddress, LineAddress, KtableAddress,
                TilePalette, Info, CellAllocSize, MapAllocSize, cramUsed, hw >>

\* A direct call of VRAM::Allocate.
AllocateCall(size, boundary, bank, cycles) ==
    /\ CanCall
    /\ maskWrites' = << >>
    /\ UNCHANGED << masks, regs, callers >>
    /\ \E r \in {Allocate(VramState, size, boundary, bank, cycles)} :
        /\ Called([name |-> "Allocate", bank |-> bank, size |-> size,
                   boundary |-> boundary, cycles |-> cycles],
                  r.ret, << r.call >>, << >>)
        /\ SetVram(r.st)
        /\ allocs' = allocs \o Granted(<< r.call >>)
        /\ req' = ReqAfter(req, r.call)
        /\ UNCHANGED layerVars

\* The slot SetBankUsedState(id, mode, false) marks free.
SetBankUsedState(used, id, mode, state) ==
    IF mode = "RGB555" THEN used
    ELSE IF state THEN used \cup {<< mode, id >>} ELSE used \ {<< mode, id >>}

RECURSIVE ReleasePalettes(_, _)
ReleasePalettes(used, ls) ==
    IF ls = << >> THEN used
    ELSE LET L == Head(ls)
         IN  ReleasePalettes(
                 IF TilePalette[L].held
                 THEN SetBankUsedState(used, TilePalette[L].id,
                                       Info[L].ColorMode, FALSE)
                 ELSE used,
                 Tail(ls))

\* Mutant of ClearedCycles: the cycle reserved in B1 is forgotten.
ClearedCycles_NoReserve == [b \in Banks |-> -1]

\* bankCycles after the loop of ClearVRAM and its last assignment
ClearedCycles == [b \in Banks |-> IF b = B1 THEN 1 ELSE -1]

ClearVRAM ==
    /\ CanCall
    /\ maskWrites' = << >>
    /\ UNCHANGED << masks, regs, callers >>
    /\ Called([name |-> "ClearVRAM"], NULL, << >>, << >>)
    /\ MapAddress' = [L \in Layers |-> Unallocated]
    /\ CellAddress' = [L \in Layers |-> Unallocated]
    /\ LineAddress' = [L \in LineLayers |-> Unallocated]
    /\ KtableAddress' = Unallocated
    /\ cramUsed' = ReleasePalettes(cramUsed,
                       << "NBG0", "NBG1", "NBG2", "NBG3", "RBG0" >>)
    /\ TilePalette' = [L \in Layers |-> NoPalette]
    /\ currentTop' = bankTop
    /\ currentBot' = bankBot
    /\ bankCycles' = ClearedCycles
    /\ allocs' = << >>
    /\ req' = reqInit(ClearedCycles)
    /\ UNCHANGED << Info, CellAllocSize, MapAllocSize, hw >>

\* Allocate on each bank of `order` in turn until one call returns non-null.
RECURSIVE TryBanks(_, _, _, _, _)
TryBanks(st, size, boundary, cycles, order) ==
    IF order = << >>
    THEN [ret |-> NULL, st |-> st, calls |-> << >>]
    ELSE One({ IF r.ret # NULL
               THEN [ret |-> r.ret, st |-> r.st, calls |-> << r.call >>]
               ELSE One({ [ret |-> rest.ret, st |-> rest.st,
                           calls |-> << r.call >> \o rest.calls] :
                          rest \in {TryBanks(r.st, size, boundary, cycles,
                                             Tail(order))} }) :
               r \in {Allocate(st, size, boundary, Head(order), cycles)} })

\* Mutant of CellCycles: every color mode costs one cycle.
CellCycles_Flat(mode) == 1

\* reqCycles of AutoAllocateCell's switch on the color mode
CellCycles(mode) ==
    CASE mode = "Paletted16" -> 1
      [] mode = "Paletted256" -> 2
      [] mode = "RGB555" -> 4
      [] OTHER -> 0

RbgCellOrder == << A0, A1, B0, B1 >>

\* Mutant of NbgCellOrder: the first two banks are tried in the other order.
NbgCellOrder_Swapped == << A1, B0, A0, B1 >>

NbgCellOrder == << B0, A1, A0, B1 >>

AutoAllocateCell(st, info, screen) ==
    One({ [ ret |-> r.ret, st |-> r.st, calls |-> r.calls,
            reports |-> IF r.ret # NULL THEN << >>
                        ELSE IF screen = "RBG0"
                        THEN << "RBG Cell Allocation failed: insufficient VRAM" >>
                        ELSE << "NBG Cell Allocation failed: insufficient VRAM" >> ] :
          r \in { IF screen = "RBG0"
                  THEN TryBanks(st, info.CellByteSize, 32, 8, RbgCellOrder)
                  ELSE TryBanks(st, info.CellByteSize, 32,
                                CellCycles(info.ColorMode), NbgCellOrder) } })

\* sz of AutoAllocateMap
MapBytes(info) ==
    LET sz == (info.MapHeight * info.MapWidth) * 2
    IN  IF info.MapMode = PNB_2WORD THEN sz * 2 ELSE sz

\* Mutant of MapBoundary: the boundary is that of one page, whatever the
\* plane size.
MapBoundary_OnePage(info) ==
    LET p1 == IF info.CharSize = CHAR_SIZE_1x1 THEN 2048 * 4 ELSE 2048
    IN  IF info.MapMode = PNB_2WORD THEN p1 * 2 ELSE p1

\* page_sz of AutoAllocateMap
MapBoundary(info) ==
    LET p0 == 2048
        p1 == IF info.CharSize = CHAR_SIZE_1x1 THEN p0 * 4 ELSE p0
        p2 == IF info.MapMode = PNB_2WORD THEN p1 * 2 ELSE p1
    IN  IF info.PlaneSize = PL_SIZE_2x2 THEN p2 * 4
        ELSE IF info.PlaneSize = PL_SIZE_2x1 THEN p2 * 2 ELSE p2

\* Mutant of AutoAllocateMap: the address is handed out but the bank's bump
\* offset and cycle counter are not kept.
AutoAllocateMap_NotKept(st, info, screen) ==
    One({ [ ret |-> r.ret, st |-> st, calls |-> r.calls, size |-> MapBytes(info),
            reports |-> IF r.ret # NULL THEN << >>
                        ELSE << "Map Allocation failed: insufficient VRAM" >> ] :
          r \in {TryBanks(st, MapBytes(info), MapBoundary(info),
                          IF screen = "RBG0" THEN 8 ELSE 1, << A0, B1 >>)} })

\* Mutant of RbgMapOrder: the rotating layer's map falls back through all
\* four banks.
RbgMapOrder_Fallback == << A0, A1, B0, B1 >>

\* The one bank AutoAllocateMap asks for the rotating layer's map.
RbgMapOrder == << A0 >>

\* Mutant of AutoAllocateMap: an ordinary layer's map asks bank B1 first
\* and bank A0 only after it.
AutoAllocateMap_B1First(st, info, screen) ==
    One({ [ ret |-> r.ret, st |-> r.st, calls |-> r.calls, size |-> MapBytes(info),
            reports |-> IF r.ret # NULL THEN << >>
                        ELSE IF screen = "RBG0"
                        THEN << "RBG Map Allocation failed: insufficient VRAM" >>
                        ELSE << "NBG Map Allocation failed: insufficient VRAM" >> ] :
          r \in { IF screen = "RBG0"
                  THEN TryBanks(st, MapBytes(info), MapBoundary(info), 8,
                                RbgMapOrder)
                  ELSE TryBanks(st, MapBytes(info), MapBoundary(info), 1,
                                << B1, A0 >>) } })

AutoAllocateMap(st, info, screen) ==
    LET sz == MapBytes(info)
        page_sz == MapBoundary(info)
    IN  One({ [ ret |-> r.ret, st |-> r.st, calls |-> r.calls, size |-> sz,
                reports |-> IF r.ret # NULL THEN << >>
                            ELSE IF screen = "RBG0"
                            THEN << "RBG Map Allocation failed: insufficient VRAM" >>
                            ELSE << "NBG Map Allocation failed: insufficient VRAM" >> ] :
              r \in { IF screen = "RBG0"
                      THEN TryBanks(st, sz, page_sz, 8, RbgMapOrder)
                      ELSE IF st.bankCycles[A0] # 7
                      THEN TryBanks(st, sz, page_sz, 1, << A0, B1 >>)
                      ELSE TryBanks(st, sz, page_sz, 1, << B1 >>) } })

\* Direct calls of the two auto-allocators.
AutoAllocateCellCall(info, screen) ==
    /\ CanCall
    /\ maskWrites' = << >>
    /\ UNCHANGED << masks, regs, callers >>
    /\ \E r \in {AutoAllocateCell(VramState, info, screen)} :
        /\ Called([name |-> "AutoAllocateCell", info |-> info, screen |-> screen],
                  r.ret, r.calls, r.reports)
        /\ SetVram(r.st)
        /\ allocs' = allocs \o Granted(r.calls)
        /\ req' = ReqAfterAll(req, r.calls)
        /\ UNCHANGED layerVars

AutoAllocateMapCall(info, screen) ==
    /\ CanCall
    /\ maskWrites' = << >>
    /\ UNCHANGED << masks, regs, callers >>
    /\ \E r \in {AutoAllocateMap(VramState, info, screen)} :
        /\ Called([name |-> "AutoAllocateMap", info |-> info, screen |-> screen],
                  r.ret, r.calls, r.reports)
        /\ SetVram(r.st)
        /\ allocs' = allocs \o Granted(r.calls)
        /\ req' = ReqAfterAll(req, r.calls)
        /\ UNCHANGED layerVars

(***************************************************************************)
(* Palette collaborator (SRL::CRAM), from its interface.                   *)
(***************************************************************************)
\* The lowest free slot of the format, or -1
GetFreeBank(used, mode) ==
    LET free == {i \in 0..(PaletteSlots - 1) : << mode, i >> \notin used}
    IN  IF free = {} THEN -1
        ELSE CHOOSE i \in free : \A j \in free : i <= j

(***************************************************************************)
(* ScrollScreen                                                            *)
(***************************************************************************)
GetPlaneAddress(L, mapAddress, info, index) ==
    IF mapAddress < VDP2_VRAM_A0 THEN NULL
    ELSE LET o0 == 2048 * index
             o1 == IF info.CharSize = CHAR_SIZE_1x1 THEN o0 * 4 ELSE o0
             o2 == IF info.MapMode = PNB_2WORD THEN o1 * 2 ELSE o1
             o3 == IF info.PlaneSize = PL_SIZE_2x2 THEN o2 * 4
                   ELSE IF info.PlaneSize = PL_SIZE_2x1 THEN o2 * 2 ELSE o2
         IN  mapAddress + o3

\* ScrollScreen::GetPageAddress(index) with the layer's MapAddress and Info.
GetPageAddress(mapAddress, info, index) ==
    IF mapAddress < VDP2_VRAM_A0 THEN NULL
    ELSE LET o0 == 2048 * index
             o1 == IF info.CharSize = CHAR_SIZE_1x1 THEN o0 * 4 ELSE o0
             o2 == IF info.MapMode = PNB_2WORD THEN o1 * 2 ELSE o1
         IN  Add32(mapAddress, o2)

\* Mutant of DefaultLayout: a map exactly as large as a plane already
\* counts as larger.
DefaultLayout_Inclusive(info) ==
    LET m0 == 32
        m1 == IF info.CharSize = CHAR_SIZE_1x1 THEN m0 * 2 ELSE m0
        mapY == IF info.PlaneSize = PL_SIZE_2x2 THEN m1 * 2 ELSE m1
        mapX == IF info.PlaneSize = PL_SIZE_2x2 THEN m1 * 2
                ELSE IF info.PlaneSize = PL_SIZE_2x1 THEN m1 * 2 ELSE m1
    IN  IF info.MapWidth >= mapX
        THEN IF info.MapHeight >= mapY THEN << 0, 1, 2, 3 >> ELSE << 0, 1, 0, 1 >>
        ELSE IF info.MapHeight >= mapY THEN << 0, 0, 1, 1 >> ELSE << 0, 0, 0, 0 >>

\* The plane indices SetPlanesDefault hands to SetMapLayout.
DefaultLayout(info) ==
    LET m0 == 32
        m1 == IF info.CharSize = CHAR_SIZE_1x1 THEN m0 * 2 ELSE m0
        mapY == IF info.PlaneSize = PL_SIZE_2x2 THEN m1 * 2 ELSE m1
        mapX == IF info.PlaneSize = PL_SIZE_2x2 THEN m1 * 2
                ELSE IF info.PlaneSize = PL_SIZE_2x1 THEN m1 * 2 ELSE m1
    IN  IF info.MapWidth > mapX
        THEN IF info.MapHeight > mapY THEN << 0, 1, 2, 3 >> ELSE << 0, 1, 0, 1 >>
        ELSE IF info.MapHeight > mapY THEN << 0, 0, 1, 1 >> ELSE << 0, 0, 0, 0 >>

\* The four plane registers after SetPlanesDefault (SetMapLayout, SetPlanes).
SetPlanesDefault(L, mapAddress, info) ==
    LET lay == DefaultLayout(info)
    IN  [i \in 1..4 |-> GetPlaneAddress(L, mapAddress, info, lay[i])]

\* Mutant of InitPlanes: Init programs the plane registers with the address
\* the layer had before its map was resolved.
InitPlanes_Unresolved(L, mapAddress) ==
    IF L = "RBG0" THEN << Unallocated >>
    ELSE << Unallocated, Unallocated, Unallocated, Unallocated >>

\* The plane registers after ScreenType::Init: slMapNbgN for an NBG,
\* sl1MapRA for RBG0.
InitPlanes(L, mapAddress) ==
    IF L = "RBG0" THEN << mapAddress >>
    ELSE << mapAddress, mapAddress, mapAddress, mapAddress >>

\* Mutant of GetCellOffset: the offset is taken from the base of the bank
\* that holds the cell data.
GetCellOffset_BankBase(info, cellAddress) ==
    LET d == (cellAddress - VDP2_VRAM_A0) % 131072
    IN  IF info.MapMode = 0 THEN d \div 32
        ELSE IF info.MapMode = 32768
        THEN IF info.CharSize # 0 THEN d \div 128
             ELSE (d % 32768) \div 32
        ELSE IF info.CharSize # 0 THEN d \div 128
             ELSE d \div 32

\* info is ScreenType::Info, which the function reads instead of its
\* parameter `tile`.
GetCellOffset(info, cellAddress) ==
    LET d == cellAddress - VDP2_VRAM_A0
    IN  IF info.MapMode = 0 THEN d \div 32
        ELSE IF info.MapMode = 32768
        THEN IF info.CharSize # 0 THEN (d % 131072) \div 128
             ELSE (d % 32768) \div 32
        ELSE IF info.CharSize # 0 THEN d \div 128
             ELSE (d % 131072) \div 32

\* ScrollScreen::SetCellAddress
SetCellAddress(L, address, size) ==
    /\ CanCall
    /\ maskWrites' = << >>
    /\ UNCHANGED << masks, regs, callers >>
    /\ Called([name |-> "SetCellAddress", layer |-> L, address |-> address,
               size |-> size], address, << >>, << >>)
    /\ CellAddress' = [CellAddress EXCEPT ![L] = address]
    /\ CellAllocSize' = [CellAllocSize EXCEPT ![L] = size]
    /\ UNCHANGED << currentBot, currentTop, bankCycles, allocs, req, MapAddress,
                    LineAddress, KtableAddress, TilePalette, Info, MapAllocSize,
                    cramUsed, hw >>

\* ScrollScreen::SetMapAddress
SetMapAddress(L, address, size) ==
    /\ CanCall
    /\ maskWrites' = << >>
    /\ UNCHANGED << masks, regs, callers >>
    /\ Called([name |-> "SetMapAddress", layer |-> L, address |-> address,
               size |-> size], address, << >>, << >>)
    /\ MapAddress' = [MapAddress EXCEPT ![L] = address]
    /\ MapAllocSize' = [MapAllocSize EXCEPT ![L] = size]
    /\ UNCHANGED << currentBot, currentTop, bankCycles, allocs, req, CellAddress,
                    LineAddress, KtableAddress, TilePalette, Info, CellAllocSize,
                    cramUsed, hw >>

\* A call of ScrollScreen::GetPageAddress(index) on layer L.
GetPageAddressCall(L, index) ==
    /\ CanCall
    /\ maskWrites' = << >>
    /\ UNCHANGED << masks, regs, callers >>
    /\ Called([name |-> "GetPageAddress", layer |-> L, index |-> index],
              GetPageAddress(MapAddress[L], Info[L], index),
              << >>, << >>)
    /\ UNCHANGED << currentBot, currentTop, bankCycles, allocs, req, layerVars >>

\* A call of ScrollScreen::GetPlaneAddress(index) on layer L.
GetPlaneAddressCall(L, index) ==
    /\ CanCall
    /\ maskWrites' = << >>
    /\ UNCHANGED << masks, regs, callers >>
    /\ Called([name |-> "GetPlaneAddress", layer |-> L, index |-> index],
              GetPlaneAddress(L, MapAddress[L], Info[L], index), << >>, << >>)
    /\ UNCHANGED << currentBot, currentTop, bankCycles, allocs, req, layerVars >>

\* Mutant of MapNeed: two-word entries are counted as one word.
MapNeed_OneWord(info) == (info.MapWidth * info.MapHeight) * 2

\* (MapWidth * MapHeight) << (1 + !MapMode)
MapNeed(info) ==
    IF info.MapMode = 0 THEN (info.MapWidth * info.MapHeight) * 4
    ELSE (info.MapWidth * info.MapHeight) * 2

LoadTilemap(L, tm) ==
    /\ CanCall
    /\ maskWrites' = << >>
    /\ UNCHANGED << masks, regs, callers >>
    /\ \E m \in { IF MapAddress[L] < VDP2_VRAM_A0
                  THEN AutoAllocateMap(VramState, tm, L)
                  ELSE [ret |-> MapAddress[L], st |-> VramState,
                        calls |-> << >>, size |-> 0, reports |-> << >>] } :
       \E c \in { IF CellAddress[L] < VDP2_VRAM_A0
                  THEN AutoAllocateCell(m.st, tm, L)
                  ELSE [ret |-> CellAddress[L], st |-> m.st,
                        calls |-> << >>, reports |-> << >>] } :
       LET autoMap == MapAddress[L] < VDP2_VRAM_A0
           mapFail == IF autoMap THEN m.ret < VDP2_VRAM_A0
                      ELSE MapAllocSize[L] < MapNeed(tm)
           mapMsgs == IF autoMap THEN m.reports
                      ELSE << "Tilemap Load Failed- MAP DATA exceeds existing VRAM allocation" >>
           autoCell == CellAddress[L] < VDP2_VRAM_A0
           cellFail == IF autoCell THEN c.ret < VDP2_VRAM_A0
                       ELSE CellAllocSize[L] < tm.CellByteSize
           cellMsgs == c.reports \o
                       << "Tilemap Load Failed- CEL DATA exceeds existing VRAM allocation" >>
           takePal == tm.ColorMode # "RGB555" /\ ~TilePalette[L].held
           colorID == IF takePal THEN GetFreeBank(cramUsed, tm.ColorMode) ELSE 0
           palFail == takePal /\ colorID < 0
           palette == IF takePal
                      THEN [held |-> TRUE, mode |-> tm.ColorMode, id |-> colorID]
                      ELSE TilePalette[L]
           o == [name |-> "LoadTilemap", layer |-> L, info |-> tm]
       IN  /\ Info' = [Info EXCEPT ![L] = tm]
           /\ UNCHANGED << LineAddress, KtableAddress, CellAllocSize, MapAllocSize >>
           /\ IF mapFail
              THEN /\ Called(o, "map", m.calls, mapMsgs)
                   /\ SetVram(m.st)
                   /\ allocs' = allocs \o Granted(m.calls)
                   /\ req' = ReqAfterAll(req, m.calls)
                   /\ MapAddress' = [MapAddress EXCEPT ![L] = m.ret]
                   /\ UNCHANGED << CellAddress, TilePalette, cramUsed, hw >>
              ELSE /\ SetVram(c.st)
                   /\ allocs' = allocs \o Granted(m.calls \o c.calls)
                   /\ req' = ReqAfterAll(req, m.calls \o c.calls)
                   /\ MapAddress' = [MapAddress EXCEPT ![L] = m.ret]
                   /\ CellAddress' = [CellAddress EXCEPT ![L] = c.ret]
                   /\ IF cellFail
                      THEN /\ Called(o, "cell", m.calls \o c.calls, cellMsgs)
                           /\ UNCHANGED << TilePalette, cramUsed, hw >>
                      ELSE IF palFail
                      THEN /\ Called(o, "palette", m.calls \o c.calls,
                                     << "Tilemap Palette Load Failed- no CRAM Palettes available" >>)
                           /\ UNCHANGED << TilePalette, cramUsed, hw >>
                      ELSE /\ Called(o, "loaded", m.calls \o c.calls, << >>)
                           /\ TilePalette' = [TilePalette EXCEPT ![L] = palette]
                           /\ cramUsed' = IF takePal
                                          THEN SetBankUsedState(cramUsed, colorID,
                                                                tm.ColorMode, TRUE)
                                          ELSE cramUsed
                           /\ hw' = [hw EXCEPT ![L] =
                                      [ planes |-> InitPlanes(L, m.ret),
                                        layout |-> IF L # "RBG0"
                                                   THEN SetPlanesDefault(L, m.ret, tm)
                                                   ELSE << >>,
                                        init |-> TRUE,
                                        data |-> [ cell |-> c.ret, map |-> m.ret,
                                                   mapoff |-> GetCellOffset(tm, c.ret),
                                                   paloff |-> palette.id ] ]]

\* RBG0::SetRotationMode
SetRotationMode(mode, vblank) ==
    /\ CanCall
    /\ UNCHANGED << masks, regs, callers >>
    /\ \E r \in { Allocate(VramState, IF vblank THEN 8192 ELSE 98304, 131072, B0,
                            IF mode = "ThreeAxis" THEN 8 ELSE 0) } :
       LET o == [name |-> "SetRotationMode", mode |-> mode, vblank |-> vblank]
       IN
        IF mode = "OneAxis"
        THEN /\ Called(o, NULL, << >>, << >>)
             /\ maskWrites' = << Push("slKtableRA", "RBG0", NULL) >>
             /\ UNCHANGED << currentBot, currentTop, bankCycles, allocs, req,
                             layerVars >>
        ELSE /\ Called(o, r.ret, << r.call >>, << >>)
             /\ SetVram(r.st)
             /\ allocs' = allocs \o Granted(<< r.call >>)
             /\ req' = ReqAfter(req, r.call)
             /\ KtableAddress' = r.ret
             /\ maskWrites' =
                    (IF vblank THEN << >>
                     ELSE << Push("slMakeKtable", "RBG0", r.ret) >>)
                    \o << Push("slKtableRA", "RBG0", r.ret) >>
             /\ UNCHANGED << MapAddress, CellAddress, LineAddress, TilePalette,
                             Info, CellAllocSize, MapAllocSize, cramUsed, hw >>

(***************************************************************************)
(* Debug::AssertScreen, and the display-wide masks' operations.            *)
(***************************************************************************)
\* AssertScreen shows the message (DEBUG builds: for 36 animation frames)
\* and then returns to its caller; msgs are the messages shown so far.
AssertScreen(msgs, message) == Append(msgs, message)

allocVars == << currentBot, currentTop, bankCycles, allocs, req >>

\* mask ^= ScreenON
SetBit_Toggle(mask, on) == IF on \in mask THEN mask \ {on} ELSE mask \cup {on}

\* mask |= ScreenON
SetBit(mask, on) == mask \cup {on}

\* mask = ~ScreenON
ClearBit_Assign(mask, on) == MaskScreens \ {on}

\* mask &= ~ScreenON
ClearBit(mask, on) == mask \ {on}

\* ActiveScrolls after ScrollEnable's slScrAutoDisp returned `check`, had the
\* bit been taken back on rejection.
EnabledScrolls_RolledBack(active, on, check) ==
    IF check < 0 THEN active ELSE SetBit(active, on)

\* ActiveScrolls after ScrollEnable's slScrAutoDisp returned `check`.
EnabledScrolls(active, on, check) == SetBit(active, on)

\* slScrAutoDisp(mask) returning `check`: a rejected pattern (check < 0)
\* leaves the display as it was.
AutoDisp(mask, check) ==
    /\ regs' = IF check < 0 THEN regs ELSE [regs EXCEPT !.ActiveScrolls = mask]
    /\ maskWrites' = << Push("slScrAutoDisp", noScreen, mask) >>

RegistrationFailed == "Scroll Registration Failed- Invalid cycle pattern"

\* ScrollScreen::ScrollEnable
ScrollEnable(L, check) ==
    /\ CanCall
    /\ \E active \in {EnabledScrolls(masks.ActiveScrolls, L, check)} :
        /\ masks' = [masks EXCEPT !.ActiveScrolls = active]
        /\ AutoDisp(active, check)
    /\ Called([name |-> "ScrollEnable", layer |-> L], check, << >>,
              IF check < 0 THEN AssertScreen(<< >>, RegistrationFailed)
              ELSE << >>)
    /\ UNCHANGED << allocVars, layerVars, callers >>

\* ScrollScreen::ScrollDisable
ScrollDisable(L, check) ==
    /\ CanCall
    /\ \E active \in {ClearBit(masks.ActiveScrolls, L)} :
        /\ masks' = [masks EXCEPT !.ActiveScrolls = active]
        /\ AutoDisp(active, check)
    /\ Called([name |-> "ScrollDisable", layer |-> L], check, << >>,
              IF check < 0 THEN AssertScreen(<< >>, RegistrationFailed)
              ELSE << >>)
    /\ UNCHANGED << allocVars, layerVars, callers >>

\* Math::Fxp(1.0) as a raw value (16 fractional bits).
FxpOne == 65536

\* The ratio of floor(31 x (1 - opacity)).
OpacityRatio_Floor31(raw) == (31 * (FxpOne - raw)) \div FxpOne

\* 31 - (uint16_t)(opacity.RawValue() >> 11), for raw >= 0
OpacityRatio(raw) == 31 - ((raw \div 2048) % 65536)

\* ScrollScreen::SetOpacity(opacity), opacity given by its raw value.
SetOpacityStep(L, raw) ==
    /\ Called([name |-> "SetOpacity", layer |-> L, opacity |-> raw], NULL,
              << >>, << >>)
    /\ IF raw < 0
       THEN /\ maskWrites' = << >>
            /\ UNCHANGED << masks, regs >>
       ELSE IF raw >= FxpOne
       THEN \E cc \in {ClearBit(masks.ColorCalcScrolls, L)} :
            /\ masks' = [masks EXCEPT !.ColorCalcScrolls = cc]
            /\ regs' = [regs EXCEPT !.ColorCalcScrolls = cc]
            /\ maskWrites' = << Push("slColorCalcOn", noScreen, cc) >>
       ELSE \E cc \in {SetBit(masks.ColorCalcScrolls, L)} :
            /\ masks' = [masks EXCEPT !.ColorCalcScrolls = cc]
            /\ regs' = [regs EXCEPT !.ColorCalcScrolls = cc,
                                    !.rate[L] = OpacityRatio(raw)]
            /\ maskWrites' = << Push("slColRate", L, OpacityRatio(raw)),
                                Push("slColorCalcOn", noScreen, cc) >>
    /\ UNCHANGED << allocVars, layerVars, callers >>

SetOpacity(L, raw) ==
    /\ CanCall
    /\ SetOpacityStep(L, raw)

\* ScrollScreen::UseColorOffset
UseColorOffset(L, mode) ==
    /\ CanCall
    /\ \E a \in { IF mode = "OffsetA" THEN SetBit(masks.OffsetAScrolls, L)
                  ELSE ClearBit(masks.OffsetAScrolls, L) },
          b \in { IF mode = "OffsetB" THEN SetBit(masks.OffsetBScrolls, L)
                  ELSE ClearBit(masks.OffsetBScrolls, L) } :
        /\ masks' = [masks EXCEPT !.OffsetAScrolls = a, !.OffsetBScrolls = b]
        /\ regs' = [regs EXCEPT !.OffsetAScrolls = a, !.OffsetBScrolls = b]
        /\ maskWrites' = << Push("slColOffsetOn", noScreen, {}),
                            Push("slColOffsetAUse", noScreen, a),
                            Push("slColOffsetBUse", noScreen, b) >>
    /\ Called([name |-> "UseColorOffset", layer |-> L, mode |-> mode], NULL,
              << >>, << >>)
    /\ UNCHANGED << allocVars, layerVars, callers >>

\* slScrTransparent(TransparentScrolls) after the mask became t.
SetTransparent(o, t) ==
    /\ masks' = [masks EXCEPT !.TransparentScrolls = t]
    /\ regs' = [regs EXCEPT !.TransparentScrolls = t]
    /\ maskWrites' = << Push("slScrTransparent", noScreen, t) >>
    /\ Called(o, NULL, << >>, << >>)
    /\ UNCHANGED << allocVars, layerVars, callers >>

\* ScrollScreen::TransparentEnable
TransparentEnable(L) ==
    /\ CanCall
    /\ SetTransparent([name |-> "TransparentEnable", layer |-> L],
                      ClearBit(masks.TransparentScrolls, L))

\* ScrollScreen::TransparentDisable
TransparentDisable(L) ==
    /\ CanCall
    /\ SetTransparent([name |-> "TransparentDisable", layer |-> L],
                      SetBit(masks.TransparentScrolls, L))

\* slColorCalcOn(ColorCalcScrolls) after the mask became cc.
SetColorCalc(o, cc) ==
    /\ masks' = [masks EXCEPT !.ColorCalcScrolls = cc]
    /\ regs' = [regs EXCEPT !.ColorCalcScrolls = cc]
    /\ maskWrites' = << Push("slColorCalcOn", noScreen, cc) >>
    /\ Called(o, NULL, << >>, << >>)
    /\ UNCHANGED << allocVars, layerVars, callers >>

\* SpriteLayer::ColorCalcON
ColorCalcON ==
    /\ CanCall
    /\ SetColorCalc([name |-> "ColorCalcON", layer |-> "SPR"],
                    SetBit(masks.ColorCalcScrolls, "SPR"))

\* SpriteLayer::ColorCalcOFF
ColorCalcOFF ==
    /\ CanCall
    /\ SetColorCalc([name |-> "ColorCalcOFF", layer |-> "SPR"],
                    ClearBit(masks.ColorCalcScrolls, "SPR"))

\* SpriteLayer::SetOpacity(opacity, SpriteBank::Bank0), opacity given by its
\* raw value: the ratio register of the sprite layer's bank 0 is "SPR".
SpriteSetOpacity(raw) ==
    /\ Called([name |-> "SpriteSetOpacity", layer |-> "SPR", opacity |-> raw],
              NULL, << >>, << >>)
    /\ IF raw < 0 \/ raw > FxpOne
       THEN /\ maskWrites' = << >>
            /\ UNCHANGED << masks, regs >>
       ELSE /\ regs' = [regs EXCEPT !.rate["SPR"] = OpacityRatio(raw)]
            /\ maskWrites' = << Push("slColRate", "SPR", OpacityRatio(raw)) >>
            /\ UNCHANGED masks
    /\ UNCHANGED << allocVars, layerVars, callers >>

\* VDP2::Initialize: the address given to slRparaInitSet for the rotation
\* parameter table, VDP2_VRAM_A0 + 0x1ff00.
RotationParamTable == VDP2_VRAM_A0 + 130816

(***************************************************************************)
(* The allocator alone, with a wide range of requests.                     *)
(***************************************************************************)
AllocSizes == {16, 131072, -16}

AllocBoundaries == {32, 131072}

AllocBanks == {A0, B1}

AllocCycles == {0, 1, 8}

NextAlloc ==
    \/ \E size \in AllocSizes, boundary \in AllocBoundaries,
          bank \in AllocBanks, cycles \in AllocCycles :
          AllocateCall(size, boundary, bank, cycles)
    \/ ClearVRAM

SpecAlloc == Init /\ [][NextAlloc]_vars

(***************************************************************************)
(* The whole interface.                                                    *)
(***************************************************************************)
TmPal256 ==
    [ MapWidth |-> 64, MapHeight |-> 64, CharSize |-> CHAR_SIZE_1x1,
      ColorMode |-> "Paletted256", PlaneSize |-> PL_SIZE_1x1,
      MapMode |-> PNB_1WORD, CellByteSize |-> 32768 ]

\* A map two planes wide: a plane of 2x1 pages of 2x2 cells holds 64x32.
TmPal16 ==
    [ MapWidth |-> 128, MapHeight |-> 32, CharSize |-> CHAR_SIZE_2x2,
      ColorMode |-> "Paletted16", PlaneSize |-> PL_SIZE_2x1,
      MapMode |-> PNB_2WORD, CellByteSize |-> 131072 ]

TmRGB ==
    [ MapWidth |-> 128, MapHeight |-> 64, CharSize |-> CHAR_SIZE_1x1,
      ColorMode |-> "RGB555", PlaneSize |-> PL_SIZE_2x2,
      MapMode |-> PNB_1WORD, CellByteSize |-> 131104 ]

Tilemaps == {TmPal256, TmPal16, TmRGB}

\* Direct color cell data that fits in a bank.
TmRGBFit == [TmRGB EXCEPT !.CellByteSize = 65536]

CellInfos == Tilemaps \cup {TmRGBFit}

LoadLayers == {"NBG0", "NBG1", "RBG0"}

Screens == {"NBG0", "RBG0"}

RotationModes == {"OneAxis", "TwoAxis", "ThreeAxis"}

Next ==
    \/ \E size \in {16, -16}, bank \in Banks : AllocateCall(size, 32, bank, 0)
    \/ \E tm \in CellInfos, screen \in Screens : AutoAllocateCellCall(tm, screen)
    \/ \E tm \in Tilemaps, screen \in Screens : AutoAllocateMapCall(tm, screen)
    \/ \E L \in LoadLayers, tm \in Tilemaps : LoadTilemap(L, tm)
    \/ \E mode \in RotationModes, vblank \in BOOLEAN : SetRotationMode(mode, vblank)
    \/ ClearVRAM

Spec == Init /\ [][Next]_vars

(***************************************************************************)
(* Loading alone: LoadTilemap on the layers in every order, and the reset. *)
(***************************************************************************)
NextOrder ==
    \/ \E L \in LoadLayers, tm \in Tilemaps : LoadTilemap(L, tm)
    \/ ClearVRAM

SpecOrder == Init /\ [][NextOrder]_vars

(***************************************************************************)
(* Plane addresses: two ordinary layers loaded with maps of every cell     *)
(* size, entry size and plane size, and asked for their planes.            *)
(***************************************************************************)
PlaneLayers == {"NBG0", "NBG1"}

PlaneTilemaps ==
    { [ MapWidth |-> 64, MapHeight |-> 64, CharSize |-> cs,
        ColorMode |-> "Paletted256", PlaneSize |-> ps, MapMode |-> mm,
        CellByteSize |-> 32768 ] :
      cs \in {CHAR_SIZE_1x1, CHAR_SIZE_2x2},
      ps \in {PL_SIZE_1x1, PL_SIZE_2x1, PL_SIZE_2x2},
      mm \in {PNB_2WORD, PNB_1WORD} }

\* Plane numbers (a uint8_t): the four planes of a layout, and the last.
PlaneIndexes == {0, 1, 3, 255}

NextPlane ==
    \/ \E L \in PlaneLayers, tm \in PlaneTilemaps : LoadTilemap(L, tm)
    \/ \E L \in PlaneLayers, index \in PlaneIndexes : GetPlaneAddressCall(L, index)

SpecPlane == Init /\ [][NextPlane]_vars

(***************************************************************************)
(* Loading with addresses the caller assigns.                              *)
(***************************************************************************)
UserLayers == {"NBG0", "RBG0"}

\* A region of bank A1 the caller picks without the allocator, and nullptr.
UserAddresses == {VDP2_VRAM_A1 + 65536, NULL}

UserMapSizes == {2048, 8192}

UserCellSizes == {4096, 32768}

\* Page numbers (a uint8_t): the first pages and the last one.
PageIndexes == {0, 1, 2, 4, 255}

NextLoad ==
    \/ \E L \in UserLayers, tm \in Tilemaps : LoadTilemap(L, tm)
    \/ \E L \in UserLayers, a \in UserAddresses, sz \in UserMapSizes :
          SetMapAddress(L, a, sz)
    \/ \E L \in UserLayers, a \in UserAddresses, sz \in UserCellSizes :
          SetCellAddress(L, a, sz)
    \/ \E L \in UserLayers, index \in PageIndexes : GetPageAddressCall(L, index)
    \/ ClearVRAM

SpecLoad == Init /\ [][NextLoad]_vars

(***************************************************************************)
(* The display-wide masks: every operation on them, on two scroll screens  *)
(* and the sprite layer, next to an allocation and a user-set address.     *)
(***************************************************************************)
MaskLayers == {"NBG0", "NBG3"}

\* slScrAutoDisp's return value: accepted, rejected.
Checks == {0, -1}

\* Raw opacities: negative, 0.0, 0.5, a little above 0.5, 1.0.
Opacities == {-1, 0, 32768, 34000, FxpOne}

OffsetChannels == {"NoOffset", "OffsetA", "OffsetB"}

NextMask ==
    \/ \E L \in MaskLayers, check \in Checks : ScrollEnable(L, check)
    \/ \E L \in MaskLayers, check \in Checks : ScrollDisable(L, check)
    \/ \E L \in MaskLayers, raw \in Opacities : SetOpacity(L, raw)
    \/ \E L \in MaskLayers, mode \in OffsetChannels : UseColorOffset(L, mode)
    \/ \E L \in MaskLayers : TransparentEnable(L)
    \/ \E L \in MaskLayers : TransparentDisable(L)
    \/ ColorCalcON
    \/ ColorCalcOFF
    \/ AllocateCall(16, 32, A0, 1)
    \/ SetCellAddress("NBG0", VDP2_VRAM_A1 + 65536, 4096)

SpecMask == Init /\ [][NextMask]_vars

(***************************************************************************)
(* ScrollScreen::Cell2VRAM and Map2VRAM: what they write, entry by entry.  *)
(***************************************************************************)
\* a | b, for a, b >= 0
BitOr(a, b) == a + b - BitAnd(a, b)

\* The bytes written from cellAdr on.
Cell2VRAM(cellData, size) == [k \in 1..size |-> cellData[k]]

\* Map2VRAM storing the one-word entry without narrowing it to uint16_t.
Map2VRAM_Wide(info, mapData, paloff, mapoff) ==
    [k \in 1..(info.MapHeight * info.MapWidth) |->
        IF info.MapMode # 0
        THEN BitOr(mapData[k] + mapoff, paloff * 4096)
        ELSE BitOr(mapData[k] + mapoff, paloff * 1048576)]

\* The entries written from mapAdr on: uint16_t entries when info.MapMode is
\* not 0, uint32_t entries otherwise.
Map2VRAM(info, mapData, paloff, mapoff) ==
    [k \in 1..(info.MapHeight * info.MapWidth) |->
        IF info.MapMode # 0
        THEN BitOr(mapData[k] + mapoff, paloff * 4096) % 65536
        ELSE BitOr(mapData[k] + mapoff, paloff * 1048576)]

\* ScrollScreen::GetPalOffset(paletteID) with ScreenType::Info = info; ownId
\* is TilePalette.GetId(), taken when paletteID is negative.
GetPalOffset(info, paletteID, ownId) ==
    LET id == IF paletteID < 0 THEN ownId ELSE paletteID
    IN  IF info.MapMode # 0 THEN id * 4096 ELSE id * 16777216

(***************************************************************************)
(* The pure functions of ScrollScreen, applied to a range of inputs.   *)
(* The input waits in `op` until one of them is applied to it.             *)
(***************************************************************************)
MapExtents == {32, 33, 64, 65, 128, 129}

\* PNB_2WORD, PNB_1WORD, and one-word mode 1 (PNB_1WORD | CN_12BIT)
MapModes == {PNB_2WORD, PNB_1WORD, 49152}

\* Cell addresses on 32-byte boundaries in each of the four banks.
CellAddresses ==
    { VDP2_VRAM_A0, VDP2_VRAM_A0 + 32800, VDP2_VRAM_A1 + 32,
      VDP2_VRAM_B0, VDP2_VRAM_B1 + 65568 }

PureInputs ==
    { [ name |-> "input",
        info |-> [ MapWidth |-> w, MapHeight |-> h, CharSize |-> cs,
                   ColorMode |-> "Paletted256", PlaneSize |-> ps,
                   MapMode |-> mm, CellByteSize |-> 32768 ],
        cellAddress |-> ca ] :
      w \in MapExtents, h \in {32, 33, 64, 65}, cs \in {CHAR_SIZE_1x1, CHAR_SIZE_2x2},
      ps \in {PL_SIZE_1x1, PL_SIZE_2x1, PL_SIZE_2x2}, mm \in MapModes,
      ca \in CellAddresses }

\* Palette ids passed as paloff (a uint8_t).
PaletteIds == {0, 1, 7, 15, 16, 127}

\* Source map entries, and the cell offsets added to them.
MapEntries == {0, 5, 4095}

CellOffsets == {0, 1}

CellBuffers == { << 0, 255, 7, 1 >>, << 17, 0, 0, 128 >> }

TransferInputs ==
    { [ name |-> "transfer",
        info |-> [ MapWidth |-> w, MapHeight |-> h, CharSize |-> CHAR_SIZE_1x1,
                   ColorMode |-> "Paletted16", PlaneSize |-> PL_SIZE_1x1,
                   MapMode |-> mm, CellByteSize |-> Len(cd) ],
        mapData |-> [k \in 1..(w * h) |-> IF k = 1 THEN e ELSE 5],
        cellData |-> cd, paloff |-> pal, mapoff |-> off ] :
      w \in {1, 2}, h \in {1, 2}, mm \in {PNB_2WORD, PNB_1WORD},
      e \in MapEntries, cd \in CellBuffers, pal \in PaletteIds,
      off \in CellOffsets }

\* Raw opacities around every step of the ratio, and outside 0.0 .. 1.0.
RawOpacities ==
    {-1, 1966, 34000, FxpOne, FxpOne + 1}
        \cup {k * 2048 : k \in 0..31} \cup {k * 2048 - 1 : k \in 1..32}

OpacityInputs ==
    { [name |-> "opacity", layer |-> "NBG0", opacity |-> raw] :
      raw \in RawOpacities }

InitPure ==
    /\ currentBot = bankBot
    /\ currentTop = bankTop
    /\ bankCycles = initBankCycles
    /\ MapAddress = [L \in Layers |-> Unallocated]
    /\ CellAddress = [L \in Layers |-> Unallocated]
    /\ LineAddress = [L \in LineLayers |-> Unallocated]
    /\ KtableAddress = Unallocated
    /\ TilePalette = [L \in Layers |-> NoPalette]
    /\ Info = [L \in Layers |-> DefaultInfo]
    /\ CellAllocSize = [L \in Layers |-> -1]
    /\ MapAllocSize = [L \in Layers |-> -1]
    /\ cramUsed = {}
    /\ hw = hwInit
    /\ op \in PureInputs \cup TransferInputs \cup OpacityInputs
    /\ ret = NULL
    /\ attempts = << >>
    /\ reports = << >>
    /\ allocs = << >>
    /\ req = reqInit(initBankCycles)
    /\ calls = 0
    /\ masks = masksInit
    /\ regs = regsInit
    /\ maskWrites = << >>
    /\ callers = << >>

pureVars == << currentBot, currentTop, bankCycles, allocs, req, MapAddress,
              CellAddress, LineAddress, KtableAddress, TilePalette, Info,
              CellAllocSize, MapAllocSize, cramUsed, hw, masks, regs,
              maskWrites, callers >>

\* The layout SetPlanesDefault(info) passes to SetMapLayout.
SetPlanesDefaultCall ==
    /\ op.name = "input"
    /\ Called([op EXCEPT !.name = "SetPlanesDefault"], DefaultLayout(op.info),
              << >>, << >>)
    /\ UNCHANGED pureVars

\* GetCellOffset(tile, cellAddress) with ScreenType::Info = info.
GetCellOffsetCall ==
    /\ op.name = "input"
    /\ Called([op EXCEPT !.name = "GetCellOffset"],
              GetCellOffset(op.info, op.cellAddress), << >>, << >>)
    /\ UNCHANGED pureVars

\* Cell2VRAM(GetCellData(), CellAddress, Info.CellByteSize)
Cell2VRAMCall ==
    /\ op.name = "transfer"
    /\ Called([op EXCEPT !.name = "Cell2VRAM"],
              Cell2VRAM(op.cellData, op.info.CellByteSize), << >>, << >>)
    /\ UNCHANGED pureVars

\* Map2VRAM(Info, GetMapData(), MapAddress, paloff, mapoff)
Map2VRAMCall ==
    /\ op.name = "transfer"
    /\ Called([op EXCEPT !.name = "Map2VRAM"],
              Map2VRAM(op.info, op.mapData, op.paloff, op.mapoff), << >>, << >>)
    /\ UNCHANGED pureVars

\* GetPalOffset(paloff) with ScreenType::Info = info
GetPalOffsetCall ==
    /\ op.name = "transfer"
    /\ Called([op EXCEPT !.name = "GetPalOffset"],
              GetPalOffset(op.info, op.paloff, TilePalette["NBG0"].id),
              << >>, << >>)
    /\ UNCHANGED pureVars

\* SetOpacity(opacity) on the input's layer
SetOpacityCall ==
    /\ op.name = "opacity"
    /\ SetOpacityStep(op.layer, op.opacity)

\* SpriteLayer::SetOpacity(opacity) with the input's opacity
SpriteSetOpacityCall ==
    /\ op.name = "opacity"
    /\ SpriteSetOpacity(op.opacity)

NextPure ==
    \/ SetPlanesDefaultCall
    \/ GetCellOffsetCall
    \/ Cell2VRAMCall
    \/ Map2VRAMCall
    \/ GetPalOffsetCall
    \/ SetOpacityCall
    \/ SpriteSetOpacityCall

SpecPure == InitPure /\ [][NextPure]_vars

(***************************************************************************)
(* Debug::PrintWithWrap.  The text is the memory from the pointer on: the  *)
(* characters, the terminating NUL, and whatever bytes lie behind it.      *)
(***************************************************************************)
NUL == "NUL"

NL == "NL"

\* The loop of PrintWithWrap from the test of its while on.  character is
\* the index into text (from 0), prints the calls of Debug::Print so far,
\* reads the highest index read so far.  A read behind the last byte of mem
\* is a read of memory nothing is known about: the outcome "fault".
RECURSIVE WrapLoop(_, _, _, _, _, _, _, _, _)
WrapLoop(mem, y, fromLeft, fromRight, character, line, screenX, prints, reads) ==
    IF character >= Len(mem)
    THEN [ line |-> line, prints |-> prints, reads |-> character,
           outcome |-> "fault" ]
    ELSE IF mem[character + 1] = NUL
    THEN [ line |-> line, prints |-> prints,
           reads |-> IF character > reads THEN character ELSE reads,
           outcome |-> "returned" ]
    ELSE LET break == screenX >= fromRight \/ mem[character + 1] = NL
             c1 == IF mem[character + 1] = NL THEN character + 1 ELSE character
             sx == IF break THEN fromLeft ELSE screenX
             ln == IF break THEN (line + 1) % 256 ELSE line
         IN  IF c1 >= Len(mem)
             THEN [ line |-> ln, prints |-> prints, reads |-> c1,
                    outcome |-> "fault" ]
             ELSE WrapLoop(mem, y, fromLeft, fromRight, (c1 + 1) % 65536, ln,
                           (sx + 1) % 65536,
                           Append(prints, [ x |-> sx, y |-> (ln + y - 1) % 256,
                                            text |-> mem[c1 + 1] ]),
                           IF c1 > reads THEN c1 ELSE reads)

\* Debug::PrintWithWrap(x, y, fromLeft, fromRight, text), text not nullptr
PrintWithWrap(x, y, fromLeft, fromRight, mem) ==
    IF fromLeft < fromRight /\ x < fromRight
    THEN WrapLoop(mem, y, fromLeft, fromRight, 0, 1, x, << >>, 0)
    ELSE [line |-> 0, prints |-> << >>, reads |-> 0, outcome |-> "returned"]

MaxText == 3

\* Texts of up to MaxText characters, newlines among them.
WrapTexts ==
    UNION { [1..n -> {"a", NL}] : n \in 0..MaxText }

\* The bytes behind the terminating NUL: the end of the known memory, a
\* second NUL, or a byte and then a NUL.
WrapTails == { << >>, << NUL >>, << "z", NUL >> }

WrapInputs ==
    { [ name |-> "wrap", x |-> x, y |-> 2, fromLeft |-> l, fromRight |-> r,
        text |-> t, mem |-> t \o << NUL >> \o tail ] :
      x \in {0, 1, 2}, l \in {0, 1}, r \in {1, 2}, t \in WrapTexts,
      tail \in WrapTails }

InitWrap ==
    /\ currentBot = bankBot
    /\ currentTop = bankTop
    /\ bankCycles = initBankCycles
    /\ MapAddress = [L \in Layers |-> Unallocated]
    /\ CellAddress = [L \in Layers |-> Unallocated]
    /\ LineAddress = [L \in LineLayers |-> Unallocated]
    /\ KtableAddress = Unallocated
    /\ TilePalette = [L \in Layers |-> NoPalette]
    /\ Info = [L \in Layers |-> DefaultInfo]
    /\ CellAllocSize = [L \in Layers |-> -1]
    /\ MapAllocSize = [L \in Layers |-> -1]
    /\ cramUsed = {}
    /\ hw = hwInit
    /\ op \in WrapInputs
    /\ ret = NULL
    /\ attempts = << >>
    /\ reports = << >>
    /\ allocs = << >>
    /\ req = reqInit(initBankCycles)
    /\ calls = 0
    /\ masks = masksInit
    /\ regs = regsInit
    /\ maskWrites = << >>
    /\ callers = << >>

\* PrintWithWrap applied to the input that waits in op.
PrintWithWrapCall ==
    /\ op.name = "wrap"
    /\ Called([op EXCEPT !.name = "PrintWithWrap"],
              PrintWithWrap(op.x, op.y, op.fromLeft, op.fromRight, op.mem),
              << >>, << >>)
    /\ UNCHANGED pureVars

NextWrap == PrintWithWrapCall

SpecWrap == InitWrap /\ [][NextWrap]_vars

(***************************************************************************)
(* Two callers inside VRAM::Allocate at once.  Each statement of Allocate  *)
(* is one step, and a += is a load followed by a store, so the callers'    *)
(* reads and writes of currentBot and bankCycles interleave.               *)
(***************************************************************************)
Callers == {1, 2}

Other(p) == 3 - p

RaceSizes == {16, 48, -16}

RaceCycles == {1, 4}

\* A caller about to enter Allocate(size, 32, A0, cycles).
Entering(size, cycles) ==
    [ pc |-> "align", size |-> size, boundary |-> 32, bank |-> A0,
      cycles |-> cycles, addrOffset |-> 0, myAddress |-> NULL, tmp |-> 0,
      alone |-> TRUE ]

InitRace ==
    /\ currentBot = bankBot
    /\ currentTop = bankTop
    /\ bankCycles = initBankCycles
    /\ MapAddress = [L \in Layers |-> Unallocated]
    /\ CellAddress = [L \in Layers |-> Unallocated]
    /\ LineAddress = [L \in LineLayers |-> Unallocated]
    /\ KtableAddress = Unallocated
    /\ TilePalette = [L \in Layers |-> NoPalette]
    /\ Info = [L \in Layers |-> DefaultInfo]
    /\ CellAllocSize = [L \in Layers |-> -1]
    /\ MapAllocSize = [L \in Layers |-> -1]
    /\ cramUsed = {}
    /\ hw = hwInit
    /\ op = [name |-> "start"]
    /\ ret = NULL
    /\ attempts = << >>
    /\ reports = << >>
    /\ allocs = << >>
    /\ req = reqInit(initBankCycles)
    /\ calls = 0
    /\ masks = masksInit
    /\ regs = regsInit
    /\ maskWrites = << >>
    /\ callers \in { [p \in Callers |-> Entering(s[p], c[p])] :
                     s \in [Callers -> RaceSizes], c \in [Callers -> RaceCycles] }

raceFrame == << currentTop, layerVars, op, ret, attempts, reports, allocs, req,
                calls, displayVars >>

\* Caller p moves on with locals c; p stays `alone` while no step of its
\* call falls inside the other caller's call.
Resume(p, c) ==
    callers' = [callers EXCEPT ![p] =
                   [c EXCEPT !.alone =
                       c.alone /\ callers[Other(p)].pc \in {"align", "done"}]]

\* The advance of the bump offset without the padding.
Need_NoPadding(c) == c.size

\* size + addrOffset
Need(c) == Add32(c.size, c.addrOffset)

\* lines 118-123: addrOffset from currentBot[bank]
Align(p) ==
    /\ callers[p].pc = "align"
    /\ Resume(p, [callers[p] EXCEPT
                    !.pc = "space",
                    !.addrOffset = AddrOffset(VramState, callers[p].boundary,
                                              callers[p].bank)])
    /\ UNCHANGED << currentBot, bankCycles, raceFrame >>

\* line 125: if (GetAvailable(bank) >= size + addrOffset)
CheckSpace(p) ==
    /\ callers[p].pc = "space"
    /\ Resume(p, [callers[p] EXCEPT
                    !.pc = IF SpaceOk(VramState, callers[p].bank, Need(callers[p]))
                           THEN "cycles" ELSE "done"])
    /\ UNCHANGED << currentBot, bankCycles, raceFrame >>

\* line 127: if ((bankCycles[bank] + cycles) < 8)
CheckCycles(p) ==
    /\ callers[p].pc = "cycles"
    /\ Resume(p, [callers[p] EXCEPT
                    !.pc = IF CyclesOk(VramState, callers[p].bank,
                                       callers[p].cycles)
                           THEN "take" ELSE "done"])
    /\ UNCHANGED << currentBot, bankCycles, raceFrame >>

\* line 129: myAddress = currentBot[bank] + addrOffset
Take(p) ==
    /\ callers[p].pc = "take"
    /\ Resume(p, [callers[p] EXCEPT
                    !.pc = "loadBot",
                    !.myAddress = currentBot[callers[p].bank]
                                  + callers[p].addrOffset])
    /\ UNCHANGED << currentBot, bankCycles, raceFrame >>

\* line 130, the load of currentBot[bank] += size + addrOffset
LoadBot(p) ==
    /\ callers[p].pc = "loadBot"
    /\ Resume(p, [callers[p] EXCEPT !.pc = "storeBot",
                                    !.tmp = currentBot[callers[p].bank]])
    /\ UNCHANGED << currentBot, bankCycles, raceFrame >>

\* line 130, the store
StoreBot(p) ==
    /\ callers[p].pc = "storeBot"
    /\ currentBot' = [currentBot EXCEPT ![callers[p].bank] =
                         callers[p].tmp + Need(callers[p])]
    /\ Resume(p, [callers[p] EXCEPT !.pc = "loadCycles"])
    /\ UNCHANGED << bankCycles, raceFrame >>

\* line 131, the load of bankCycles[bank] += cycles
LoadCycles(p) ==
    /\ callers[p].pc = "loadCycles"
    /\ Resume(p, [callers[p] EXCEPT !.pc = "storeCycles",
                                    !.tmp = bankCycles[callers[p].bank]])
    /\ UNCHANGED << currentBot, bankCycles, raceFrame >>

\* line 131, the store; line 135: return myAddress
StoreCycles(p) ==
    /\ callers[p].pc = "storeCycles"
    /\ bankCycles' = [bankCycles EXCEPT ![callers[p].bank] =
                         callers[p].tmp + callers[p].cycles]
    /\ Resume(p, [callers[p] EXCEPT !.pc = "done"])
    /\ UNCHANGED << currentBot, raceFrame >>

NextRace ==
    \/ \E p \in Callers : Align(p)
    \/ \E p \in Callers : CheckSpace(p)
    \/ \E p \in Callers : CheckCycles(p)
    \/ \E p \in Callers : Take(p)
    \/ \E p \in Callers : LoadBot(p)
    \/ \E p \in Callers : StoreBot(p)
    \/ \E p \in Callers : LoadCycles(p)
    \/ \E p \in Callers : StoreCycles(p)

SpecRace == InitRace /\ [][NextRace]_vars

(***************************************************************************)
(* Claims.                                                                 *)
(***************************************************************************)
\* The byte range of an allocation a ends after address x.  A size carried
\* as a negative number is 2^31 or more: such a range ends after every
\* VRAM address.
EndsAfter(a, x) == a.size < 0 \/ a.addr + a.size > x

Overlap(a, b) ==
    /\ a.size # 0
    /\ b.size # 0
    /\ EndsAfter(a, b.addr)
    /\ EndsAfter(b, a.addr)

\* x rounded up to the next multiple of boundary
RoundUp(x, boundary) == ((x + boundary - 1) \div boundary) * boundary

\* The padding of the Allocate call named by the record o, in this state.
PadOf(o) == RoundUp(currentBot[o.bank], o.boundary) - currentBot[o.bank]

\* The mathematical padding + size of the call o fits in the bytes left.
Fits(o) ==
    o.size >= 0 /\ PadOf(o) + o.size <= currentTop[o.bank] - currentBot[o.bank]

OtherBanksUnchanged(bank) ==
    \A b \in Banks \ {bank} :
        /\ currentBot'[b] = currentBot[b]
        /\ currentTop'[b] = currentTop[b]
        /\ bankCycles'[b] = bankCycles[b]

BankUnchanged(b) ==
    /\ currentBot'[b] = currentBot[b]
    /\ currentTop'[b] = currentTop[b]
    /\ bankCycles'[b] = bankCycles[b]

\* C1: between two resets, the byte ranges of any two successful Allocate
\* calls do not overlap, and within one bank a later allocation starts at
\* or after the end of every earlier one.
C1_DisjointAndMonotone ==
    \A i, j \in 1..Len(allocs) :
        i < j =>
            /\ ~Overlap(allocs[i], allocs[j])
            /\ allocs[i].bank = allocs[j].bank
                   => ~EndsAfter(allocs[i], allocs[j].addr)

\* C2: an Allocate call whose padding plus size exceeds the bytes left in
\* the bank returns nullptr and changes no bank.
C2_OversizedRefused ==
    [][ (op'.name = "Allocate" /\ ~Fits(op'))
            => /\ ret' = NULL
               /\ \A b \in Banks : BankUnchanged(b) ]_vars

\* C3 (as amended): when the bytes fit, Allocate returns nullptr exactly
\* when bankCycles[bank] + cycles is 8 or more, and a failing call leaves
\* the counter and the bump offset unchanged.
C3_CycleGate ==
    [][ (op'.name = "Allocate" /\ Fits(op'))
            => /\ (ret' = NULL) <=> (bankCycles[op'.bank] + op'.cycles >= 8)
               /\ ret' = NULL => \A b \in Banks : BankUnchanged(b) ]_vars

\* C3 (as claimed): when the bytes fit, Allocate returns nullptr exactly
\* when bankCycles[bank] + cycles exceeds 8.
C3_Original ==
    [][ (op'.name = "Allocate" /\ Fits(op'))
            => /\ (ret' = NULL) <=> (bankCycles[op'.bank] + op'.cycles > 8)
               /\ ret' = NULL => \A b \in Banks : BankUnchanged(b) ]_vars

\* An Allocate call with room for its bytes was refused because the sum of
\* the counter and its cycles is exactly 8.
C3_Witness ==
    /\ op.name = "Allocate"
    /\ ret = NULL
    /\ Fits(op)
    /\ bankCycles[op.bank] + op.cycles = 8

\* C4: no bank's cycle counter ever exceeds 8.
C4_CyclesWithinBudget == \A b \in Banks : bankCycles[b] <= 8

\* An 8-cycle request was granted and took the whole budget of a bank.
C4_Witness ==
    /\ Len(attempts) > 0
    /\ attempts[Len(attempts)].cycles = 8
    /\ attempts[Len(attempts)].ret # NULL
    /\ bankCycles[attempts[Len(attempts)].bank] = 7

C5_Bounds ==
    \A b \in Banks :
        /\ bankBot[b] <= currentBot[b]
        /\ currentBot[b] <= currentTop[b]
        /\ currentTop[b] = bankTop[b]

\* C5: every bank's bump offset stays between the bank's bottom and its
\* top, the top never moves, and the bump offset never decreases except
\* through ClearVRAM.
C5_OffsetWithinBank ==
    /\ []C5_Bounds
    /\ [][ op'.name # "ClearVRAM"
               => \A b \in Banks : currentBot'[b] >= currentBot[b] ]_vars

\* An allocation has filled a bank to its top.
C5_Witness ==
    \E b \in Banks :
        /\ currentBot[b] = currentTop[b]
        /\ \E i \in 1..Len(allocs) : allocs[i].bank = b

\* C6: a successful Allocate returns the bump offset rounded up to the
\* boundary, advances the bump offset by exactly padding + size, adds
\* exactly cycles to the counter and changes no other bank.
C6_SuccessEffect ==
    [][ (op'.name = "Allocate" /\ ret' # NULL)
            => /\ ret' = RoundUp(currentBot[op'.bank], op'.boundary)
               /\ op'.size >= 0
               /\ currentBot'[op'.bank] =
                      currentBot[op'.bank] + PadOf(op') + op'.size
               /\ bankCycles'[op'.bank] = bankCycles[op'.bank] + op'.cycles
               /\ OtherBanksUnchanged(op'.bank) ]_vars

\* C7 (as amended): on every bank, while the padding plus the bytes
\* requested since the last reset fit in the bank and the cycles requested
\* keep the counter below 8, no Allocate call has failed.
C7_FittingSequencesSucceed ==
    \A b \in Banks :
        (req[b].padded <= Capacity(b) /\ req[b].base + req[b].cycles < 8)
            => ~req[b].failed

\* C7 (as claimed): while the bytes requested fit in the bank and the
\* cycles requested are at most 8, no Allocate call has failed.
C7_Original ==
    \A b \in Banks :
        (req[b].size <= Capacity(b) /\ req[b].cycles <= 8) => ~req[b].failed

\* Two allocations were granted in one bank, which now has no cycle left,
\* and no call on that bank failed.
C7_Witness ==
    \E b \in Banks :
        /\ Cardinality({i \in 1..Len(allocs) : allocs[i].bank = b}) >= 2
        /\ req[b].base + req[b].cycles = 7
        /\ req[b].padded <= Capacity(b)
        /\ ~req[b].failed

\* C8 (as amended): after ClearVRAM every bank has its whole capacity
\* free, every layer address is the unallocated sentinel, and the cycle
\* counters are -1 for A0, A1, B0 and 1 for B1.
C8_ResetState ==
    op.name = "ClearVRAM" =>
        /\ \A b \in Banks : GetAvailable(VramState, b) = Capacity(b)
        /\ \A L \in Layers : MapAddress[L] = Unallocated /\ CellAddress[L] = Unallocated
        /\ \A L \in LineLayers : LineAddress[L] = Unallocated
        /\ KtableAddress = Unallocated
        /\ \A b \in Banks : bankCycles[b] = IF b = B1 THEN 1 ELSE -1

\* C8 (as claimed): ... and the cycle counters are 0 for three banks and 1
\* for B1.
C8_Original ==
    op.name = "ClearVRAM" =>
        /\ \A b \in Banks : GetAvailable(VramState, b) = Capacity(b)
        /\ \A L \in Layers : MapAddress[L] = Unallocated /\ CellAddress[L] = Unallocated
        /\ \A L \in LineLayers : LineAddress[L] = Unallocated
        /\ KtableAddress = Unallocated
        /\ \A b \in Banks : bankCycles[b] = IF b = B1 THEN 1 ELSE 0

\* ClearVRAM ran after a layer had been loaded.
C8_Witness ==
    /\ op.name = "ClearVRAM"
    /\ \E L \in Layers : hw[L].init

\* C9: after ClearVRAM no palette slot taken by a layer load is still
\* marked used and no layer holds a palette.
C9_PalettesReleased ==
    op.name = "ClearVRAM" =>
        /\ cramUsed = {}
        /\ \A L \in Layers : ~TilePalette[L].held

\* The banks AutoAllocateCell may use for the call o, in order, and the
\* cycles it asks for.
C10_Order(o) ==
    IF o.screen = "RBG0" THEN << A0, A1, B0, B1 >> ELSE << B0, A1, A0, B1 >>

C10_Cycles(o) ==
    IF o.screen = "RBG0" THEN 8
    ELSE CASE o.info.ColorMode = "Paletted16" -> 1
           [] o.info.ColorMode = "Paletted256" -> 2
           [] OTHER -> 4

\* C10: AutoAllocateCell returns what Allocate returns on the first bank
\* of the caller's order on which Allocate succeeds, changes no other
\* bank, and reports a failure only when Allocate fails on all four.
C10_FirstBankInOrder ==
    [][ op'.name = "AutoAllocateCell" =>
          \A order \in {C10_Order(op')} :
          \A try \in {[i \in 1..4 |->
                          Allocate(VramState, op'.info.CellByteSize, 32,
                                   order[i], C10_Cycles(op'))]} :
          \A wins \in {{i \in 1..4 : try[i].ret # NULL}} :
              IF wins = {}
              THEN /\ ret' = NULL
                   /\ reports' # << >>
                   /\ \A b \in Banks : BankUnchanged(b)
              ELSE \A k \in {i \in wins : \A j \in wins : i <= j} :
                       /\ ret' = try[k].ret
                       /\ reports' = << >>
                       /\ currentBot'[order[k]] = try[k].st.currentBot[order[k]]
                       /\ bankCycles'[order[k]] = try[k].st.bankCycles[order[k]]
                       /\ OtherBanksUnchanged(order[k]) ]_vars

\* AutoAllocateCell was refused by the first bank of its order and served
\* by a later one.
C10_Witness ==
    /\ op.name = "AutoAllocateCell"
    /\ ret # NULL
    /\ Len(attempts) >= 2

\* The bytes and the boundary AutoAllocateMap asks for the call o.
C11_Bytes(o) ==
    IF o.info.MapMode = PNB_2WORD
    THEN o.info.MapHeight * o.info.MapWidth * 4
    ELSE o.info.MapHeight * o.info.MapWidth * 2

C11_Try(o, bank) ==
    Allocate(VramState, C11_Bytes(o), MapBoundary(o.info), bank, 8)

\* C11 (as amended): AutoAllocateMap for RBG0 asks bank A0 only, with
\* cycle cost 8; it returns what that one Allocate returns, reports a
\* failure exactly when it is nullptr, and touches no other bank.
C11_RbgMapOnlyA0 ==
    [][ (op'.name = "AutoAllocateMap" /\ op'.screen = "RBG0") =>
          \A t \in {C11_Try(op', A0)} :
              /\ ret' = t.ret
              /\ (reports' # << >>) <=> (t.ret = NULL)
              /\ currentBot'[A0] = t.st.currentBot[A0]
              /\ bankCycles'[A0] = t.st.bankCycles[A0]
              /\ OtherBanksUnchanged(A0) ]_vars

\* C11 (as claimed): AutoAllocateMap for RBG0 returns the first success of
\* Allocate on A0, A1, B0, B1 with cycle cost 8 and reports a failure only
\* when all four fail.
C11_Original ==
    [][ (op'.name = "AutoAllocateMap" /\ op'.screen = "RBG0") =>
          \A try \in {[b \in Banks |-> C11_Try(op', b)]} :
          \A wins \in {{b \in Banks : try[b].ret # NULL}} :
              IF wins = {}
              THEN ret' = NULL /\ reports' # << >>
              ELSE \A k \in {b \in wins : \A j \in wins : b <= j} :
                       ret' = try[k].ret /\ reports' = << >> ]_vars

\* AutoAllocateMap for RBG0 reported a failure although bank A1 would
\* have granted the same request.
C11_Witness ==
    /\ op.name = "AutoAllocateMap"
    /\ op.screen = "RBG0"
    /\ ret = NULL
    /\ reports # << >>
    /\ C11_Try(op, A1).ret # NULL

\* C12: AutoAllocateCell asks every bank it tries for 1 cycle (Paletted16),
\* 2 (Paletted256) or 4 (RGB555) on an ordinary layer and for 8 on RBG0,
\* and on success the counter of the bank that granted the request rises
\* by exactly that cost.
C12_CellCycleCost ==
    [][ op'.name = "AutoAllocateCell" =>
          \A cost \in { IF op'.screen = "RBG0" THEN 8
                        ELSE IF op'.info.ColorMode = "Paletted16" THEN 1
                        ELSE IF op'.info.ColorMode = "Paletted256" THEN 2
                        ELSE 4 } :
              /\ attempts' # << >>
              /\ \A i \in 1..Len(attempts') : attempts'[i].cycles = cost
              /\ ret' # NULL =>
                     \A b \in {attempts'[Len(attempts')].bank} :
                         bankCycles'[b] = bankCycles[b] + cost ]_vars

\* Direct color cell data of an ordinary layer was placed and the bank
\* that took it went from no cycle used to four.
C12_Witness ==
    /\ op.name = "AutoAllocateCell"
    /\ op.screen # "RBG0"
    /\ op.info.ColorMode = "RGB555"
    /\ ret # NULL
    /\ bankCycles[attempts[Len(attempts)].bank] = 3

\* C13: between resets, a bank that granted an 8-cycle allocation holds no
\* other allocation with a non-zero cycle cost, made before or after it.
C13_ExclusiveBank ==
    \A i, j \in 1..Len(allocs) :
        (i # j /\ allocs[i].cycles = 8 /\ allocs[j].bank = allocs[i].bank)
            => allocs[j].cycles = 0

\* A bank holds an 8-cycle allocation next to another allocation, and the
\* last operation was refused cycles in that bank although its bytes fit.
C13_Witness ==
    \E i, j \in 1..Len(allocs) :
        /\ i # j
        /\ allocs[i].cycles = 8
        /\ allocs[j].bank = allocs[i].bank
        /\ \E k \in 1..Len(attempts) :
               /\ attempts[k].bank = allocs[i].bank
               /\ attempts[k].cycles > 0
               /\ attempts[k].ret = NULL
               /\ attempts[k].size >= 0
               /\ attempts[k].size + attempts[k].pad
                      <= currentTop[allocs[i].bank] - currentBot[allocs[i].bank]

\* The last operation was LoadTilemap of a Paletted256 64x64 map on an
\* ordinary layer, run on banks that were empty: every allocation since
\* the reset is its own, no other layer has an address or a palette.
C14_FirstLoad ==
    /\ op.name = "LoadTilemap"
    /\ op.layer \in NBGs
    /\ op.info.ColorMode = "Paletted256"
    /\ op.info.MapWidth = 64
    /\ op.info.MapHeight = 64
    /\ allocs = Granted(attempts)
    /\ \A L \in Layers \ {op.layer} :
           /\ MapAddress[L] < VDP2_VRAM_A0
           /\ CellAddress[L] < VDP2_VRAM_A0
           /\ ~TilePalette[L].held
    /\ KtableAddress < VDP2_VRAM_A0
    /\ cramUsed \subseteq {<< "Paletted256", TilePalette[op.layer].id >>}

\* C14: from empty banks, LoadTilemap of the same Paletted256 64x64 map on
\* two ordinary layers succeeds twice, the four regions are pairwise
\* disjoint, each layer's cell data costs 2 cycles in its bank, and bank
\* A0 keeps its bump offset and its cycle counter.
C14_TwoLayerScenario ==
    [][ ( /\ C14_FirstLoad
          /\ op'.name = "LoadTilemap"
          /\ op'.layer \in NBGs \ {op.layer}
          /\ op'.info = op.info )
        => /\ ret = "loaded"
           /\ ret' = "loaded"
           /\ Len(allocs') = 4
           /\ \A i, j \in 1..Len(allocs') :
                  i < j => ~Overlap(allocs'[i], allocs'[j])
           /\ \A L \in {op.layer, op'.layer} :
                  \E i \in 1..Len(allocs') :
                      /\ allocs'[i].addr = CellAddress'[L]
                      /\ allocs'[i].cycles = 2
           /\ currentBot'[A0] = bankBot[A0]
           /\ bankCycles'[A0] = -1 ]_vars

\* The Allocate calls of a LoadTilemap for its map and for its cell data:
\* AutoAllocateCell always asks for a 32-byte boundary, AutoAllocateMap for
\* a page of 0x800 bytes or more.
C15_MapCalls(cs) == {i \in 1..Len(cs) : cs[i].boundary # 32}

C15_CellCalls(cs) == {i \in 1..Len(cs) : cs[i].boundary = 32}

\* C15: LoadTilemap runs the map (cell) auto-allocator only when the
\* layer's map (cell) address is below VDP2_VRAM_A0; with an address
\* assigned it allocates nothing for it, keeps the address, and goes on
\* only if MapAllocSize is at least width * height * 2 bytes, twice that
\* for two-word entries (CellAllocSize at least CellByteSize); otherwise it
\* reports the failure and leaves data and registers alone.
C15_AllocateOnlyWhenUnassigned ==
    [][ op'.name = "LoadTilemap" =>
          \A L \in {op'.layer} :
          \A need \in { op'.info.MapWidth * op'.info.MapHeight * 2
                          * (IF op'.info.MapMode = PNB_2WORD THEN 2 ELSE 1) } :
              /\ (C15_MapCalls(attempts') # {}) <=> (MapAddress[L] < VDP2_VRAM_A0)
              /\ (C15_CellCalls(attempts') # {}) =>
                     (CellAddress[L] < VDP2_VRAM_A0)
              /\ MapAddress[L] >= VDP2_VRAM_A0 =>
                     /\ MapAddress'[L] = MapAddress[L]
                     /\ (ret' # "map") <=> (MapAllocSize[L] >= need)
              /\ (CellAddress[L] >= VDP2_VRAM_A0 /\ ret' # "map") =>
                     /\ CellAddress'[L] = CellAddress[L]
                     /\ (ret' # "cell") <=>
                            (CellAllocSize[L] >= op'.info.CellByteSize)
              /\ ret' \in {"map", "cell"} =>
                     /\ reports' # << >>
                     /\ hw' = hw ]_vars

\* A tilemap was loaded into regions the caller had assigned, the map
\* region being exactly as large as the map, without any Allocate call.
C15_Witness ==
    /\ op.name = "LoadTilemap"
    /\ ret = "loaded"
    /\ attempts = << >>
    /\ MapAllocSize[op.layer] = op.info.MapWidth * op.info.MapHeight * 2
    /\ hw[op.layer].data.map = MapAddress[op.layer]

\* LoadTilemap on layer L allocated the map in this step and then stopped
\* at the cell data or at the palette.
C16_LaterStepFailed(L) ==
    /\ op'.name = "LoadTilemap"
    /\ op'.layer = L
    /\ MapAddress[L] < VDP2_VRAM_A0
    /\ MapAddress'[L] >= VDP2_VRAM_A0
    /\ ret' \in {"cell", "palette"}

\* C16: when LoadTilemap allocated the map and a later step of the call
\* failed, the layer keeps the new MapAddress, the bank keeps the advanced
\* bump offset and the cycles of the map, no data is transferred and Init
\* is not called; the address stays until ClearVRAM (or SetMapAddress).
C16_NoRollback ==
    /\ [][ \A L \in Layers : C16_LaterStepFailed(L) =>
             /\ \E b \in Banks :
                    /\ bankBot[b] <= MapAddress'[L]
                    /\ MapAddress'[L] < bankTop[b]
                    /\ currentBot[b] <= MapAddress'[L]
                    /\ currentBot'[b] >= MapAddress'[L]
                           + op'.info.MapWidth * op'.info.MapHeight * 2
                               * (IF op'.info.MapMode = PNB_2WORD THEN 2 ELSE 1)
                    /\ bankCycles'[b] >= bankCycles[b]
                           + (IF L = "RBG0" THEN 8 ELSE 1)
             /\ hw' = hw ]_vars
    /\ [][ \A L \in Layers :
             (MapAddress[L] >= VDP2_VRAM_A0
                  /\ op'.name \notin {"ClearVRAM", "SetMapAddress"})
             => /\ MapAddress'[L] = MapAddress[L]
                /\ \A b \in Banks : /\ currentBot'[b] >= currentBot[b]
                                    /\ bankCycles'[b] >= bankCycles[b] ]_vars

\* A load allocated its map and its cell data and then found no free
\* palette: the layer has both addresses and nothing was programmed.
C16_Witness ==
    /\ op.name = "LoadTilemap"
    /\ ret = "palette"
    /\ MapAddress[op.layer] >= VDP2_VRAM_A0
    /\ Len(attempts) >= 2
    /\ ~hw[op.layer].init

\* C17: a LoadTilemap call ends at the first step that fails, in the order
\* map address, cell address, palette, data transfer, Init: a failure
\* leaves every later step without effect, and when Init has programmed
\* the layer its addresses are assigned, its palette is held (unless the
\* tilemap is RGB555) and the data was written to those addresses.
C17_StepsInOrder ==
    [][ op'.name = "LoadTilemap" =>
          \A L \in {op'.layer} :
              /\ ret' \in {"map", "cell", "palette", "loaded"}
              /\ ret' = "map" =>
                     /\ C15_CellCalls(attempts') = {}
                     /\ CellAddress' = CellAddress
                     /\ TilePalette' = TilePalette
                     /\ cramUsed' = cramUsed
                     /\ hw' = hw
              /\ ret' = "cell" =>
                     /\ MapAddress'[L] >= VDP2_VRAM_A0
                     /\ TilePalette' = TilePalette
                     /\ cramUsed' = cramUsed
                     /\ hw' = hw
              /\ ret' = "palette" =>
                     /\ MapAddress'[L] >= VDP2_VRAM_A0
                     /\ CellAddress'[L] >= VDP2_VRAM_A0
                     /\ TilePalette' = TilePalette
                     /\ cramUsed' = cramUsed
                     /\ hw' = hw
              /\ (ret' = "loaded" \/ hw' # hw) =>
                     /\ ret' = "loaded"
                     /\ MapAddress'[L] >= VDP2_VRAM_A0
                     /\ CellAddress'[L] >= VDP2_VRAM_A0
                     /\ op'.info.ColorMode = "RGB555" \/ TilePalette'[L].held
                     /\ hw'[L].init
                     /\ hw'[L].data.map = MapAddress'[L]
                     /\ hw'[L].data.cell = CellAddress'[L]
                     /\ \A i \in DOMAIN hw'[L].planes :
                            hw'[L].planes[i] = MapAddress'[L]
                     /\ \A K \in Layers \ {L} : hw'[K] = hw[K] ]_vars

\* A load went through all its steps: both regions were allocated by the
\* call, a palette was taken, and the layer is programmed with them.
C17_Witness ==
    /\ op.name = "LoadTilemap"
    /\ ret = "loaded"
    /\ Len(attempts) >= 2
    /\ TilePalette[op.layer].held
    /\ hw[op.layer].init
    /\ hw[op.layer].data.map = MapAddress[op.layer]
    /\ hw[op.layer].data.cell = CellAddress[op.layer]

\* Plane capacity in cells, the default layout and the plane addresses of
\* that layout for the tilemap info, written out from the geometry.
C18_PlaneW(info) ==
    32 * (IF info.CharSize = CHAR_SIZE_1x1 THEN 2 ELSE 1)
       * (IF info.PlaneSize \in {PL_SIZE_2x2, PL_SIZE_2x1} THEN 2 ELSE 1)

C18_PlaneH(info) ==
    32 * (IF info.CharSize = CHAR_SIZE_1x1 THEN 2 ELSE 1)
       * (IF info.PlaneSize = PL_SIZE_2x2 THEN 2 ELSE 1)

C18_Layout(info) ==
    CASE info.MapWidth > C18_PlaneW(info) /\ info.MapHeight > C18_PlaneH(info)
             -> << 0, 1, 2, 3 >>
      [] info.MapWidth > C18_PlaneW(info) /\ info.MapHeight <= C18_PlaneH(info)
             -> << 0, 1, 0, 1 >>
      [] info.MapWidth <= C18_PlaneW(info) /\ info.MapHeight > C18_PlaneH(info)
             -> << 0, 0, 1, 1 >>
      [] OTHER -> << 0, 0, 0, 0 >>

C18_PlaneBytes(info) ==
    2048 * (IF info.CharSize = CHAR_SIZE_1x1 THEN 4 ELSE 1)
         * (IF info.MapMode = PNB_2WORD THEN 2 ELSE 1)
         * (IF info.PlaneSize = PL_SIZE_2x2 THEN 4
            ELSE IF info.PlaneSize = PL_SIZE_2x1 THEN 2 ELSE 1)

\* C18: after a successful LoadTilemap on an ordinary layer the plane
\* registers hold the four plane addresses of the default layout of the
\* map's geometry; on RBG0 they hold the single map address.
C18_DefaultLayoutProgrammed ==
    (op.name = "LoadTilemap" /\ ret = "loaded") =>
        IF op.layer = "RBG0"
        THEN hw["RBG0"].planes = << MapAddress["RBG0"] >>
        ELSE hw[op.layer].planes =
                 [i \in 1..4 |-> MapAddress[op.layer]
                                   + C18_Layout(op.info)[i] * C18_PlaneBytes(op.info)]

\* C19: the layout SetPlanesDefault selects is decided by MapWidth,
\* MapHeight, CharSize and PlaneSize alone: a plane holds 32x32 cells,
\* twice that in both axes for 1x1 cells, twice again in both axes for
\* plane size 2x2 or in width only for 2x1; the layout is (0,0,0,0) when
\* the map fits in a plane, (0,1,0,1) when it is only wider, (0,0,1,1)
\* when it is only taller and (0,1,2,3) when it is both; a 64x64 map on
\* 64x64 planes gives (0,0,0,0) and a 128x64 map gives (0,1,0,1).
C19_LayoutFromGeometry ==
    op.name = "SetPlanesDefault" =>
        \A w \in {op.info.MapWidth}, h \in {op.info.MapHeight} :
        \A pw \in {C18_PlaneW(op.info)}, ph \in {C18_PlaneH(op.info)} :
            /\ (w <= pw /\ h <= ph) => ret = << 0, 0, 0, 0 >>
            /\ (w > pw /\ h <= ph) => ret = << 0, 1, 0, 1 >>
            /\ (w <= pw /\ h > ph) => ret = << 0, 0, 1, 1 >>
            /\ (w > pw /\ h > ph) => ret = << 0, 1, 2, 3 >>
            /\ (pw = 64 /\ ph = 64 /\ w = 64 /\ h = 64) => ret = << 0, 0, 0, 0 >>
            /\ (pw = 64 /\ ph = 64 /\ w = 128 /\ h = 64) => ret = << 0, 1, 0, 1 >>

\* SetPlanesDefault was applied to a 128x64 map of 1x1 cells with plane
\* size 1x1 and chose the horizontal pair.
C19_Witness ==
    /\ op.name = "SetPlanesDefault"
    /\ op.info.MapWidth = 128
    /\ op.info.MapHeight = 64
    /\ op.info.CharSize = CHAR_SIZE_1x1
    /\ op.info.PlaneSize = PL_SIZE_1x1
    /\ ret = << 0, 1, 0, 1 >>

\* The base address of the bank that holds address a.
C20_BankBase(a) ==
    CHOOSE base \in {VDP2_VRAM_A0, VDP2_VRAM_A1, VDP2_VRAM_B0, VDP2_VRAM_B1} :
        base <= a /\ a < base + 131072

C21_Bit(x, i) == (x \div (2 ^ i)) % 2

\* a | b computed bit by bit, for a, b below 2^28
C21_Or(a, b) ==
    LET RECURSIVE Upto(_)
        Upto(i) == IF i < 0 THEN 0
                   ELSE (2 ^ i) * (IF C21_Bit(a, i) + C21_Bit(b, i) > 0 THEN 1 ELSE 0)
                        + Upto(i - 1)
    IN  Upto(27)

C21_OneWord(o) == o.info.MapMode # PNB_2WORD

\* The entry the claim describes for source entry k.
C21_Entry(o, k) ==
    IF C21_OneWord(o)
    THEN C21_Or(o.mapData[k] + o.mapoff, o.paloff * (2 ^ 12)) % (2 ^ 16)
    ELSE C21_Or(o.mapData[k] + o.mapoff, o.paloff * (2 ^ 20))

\* What is read back from a written entry at the palette position.
C21_ReadBack(o, entry) ==
    IF C21_OneWord(o) THEN entry \div (2 ^ 12) ELSE entry \div (2 ^ 20)

\* Source entry plus offset stays below the palette position.
C21_Clear(o, k) ==
    o.mapData[k] + o.mapoff < (IF C21_OneWord(o) THEN 2 ^ 12 ELSE 2 ^ 20)

C21_Written ==
    /\ op.name = "Map2VRAM" =>
        /\ DOMAIN ret = 1..(op.info.MapWidth * op.info.MapHeight)
        /\ \A k \in DOMAIN ret : ret[k] = C21_Entry(op, k)
    /\ op.name = "Cell2VRAM" =>
        /\ DOMAIN ret = 1..op.info.CellByteSize
        /\ \A k \in DOMAIN ret : ret[k] = op.cellData[k]

\* C21 (amended): Map2VRAM writes exactly MapWidth x MapHeight entries, each
\* (source + cell offset) | (palette id << 12) narrowed to 16 bits for one-word
\* entries, or (source + cell offset) | (palette id << 20) for two-word
\* entries; where source + offset stays below the palette position, a two-word
\* entry gives back the palette id at bit 20, and a one-word entry gives back
\* the low four bits of the palette id at bit 12 (the id itself only when it
\* is below 16); Cell2VRAM copies CellByteSize bytes unchanged.
C21_MapTransfer ==
    /\ C21_Written
    /\ op.name = "Map2VRAM" =>
        \A k \in DOMAIN ret :
            C21_Clear(op, k) =>
                C21_ReadBack(op, ret[k]) =
                    (IF C21_OneWord(op) THEN op.paloff % 16 ELSE op.paloff)

\* C21 as stated: the palette id is read back from every written entry, for
\* every palette id.
C21_Original ==
    /\ C21_Written
    /\ op.name = "Map2VRAM" =>
        \A k \in DOMAIN ret :
            C21_Clear(op, k) => C21_ReadBack(op, ret[k]) = op.paloff

\* A one-word map of 2 x 2 entries written with palette id 16.
C21_Witness ==
    /\ op.name = "Map2VRAM"
    /\ C21_OneWord(op)
    /\ op.paloff = 16
    /\ Len(ret) = 4
    /\ \A k \in DOMAIN ret : C21_Clear(op, k)

(***************************************************************************)
(* C22 - C24.  The display-wide masks.                                     *)
(***************************************************************************)
MaskNames == { "ActiveScrolls", "ColorCalcScrolls", "OffsetAScrolls",
               "OffsetBScrolls", "TransparentScrolls" }

\* The SGL function that pushes each mask.
PushOf(m) ==
    CASE m = "ActiveScrolls" -> "slScrAutoDisp"
      [] m = "ColorCalcScrolls" -> "slColorCalcOn"
      [] m = "OffsetAScrolls" -> "slColOffsetAUse"
      [] m = "OffsetBScrolls" -> "slColOffsetBUse"
      [] m = "TransparentScrolls" -> "slScrTransparent"

\* Every mask the step changed was handed whole to its push function.
C22_ChangedMasksPushed ==
    [][ \A m \in MaskNames :
            masks'[m] # masks[m] =>
                \E i \in DOMAIN maskWrites' :
                    /\ maskWrites'[i].reg = PushOf(m)
                    /\ maskWrites'[i].value = masks'[m] ]_vars

\* C22: the hardware copy of each display-wide mask always equals the
\* software mask.
C22_HardwareMirrorsMasks == \A m \in MaskNames : regs[m] = masks[m]

\* The masks an operation may touch.
C23_Relevant(name) ==
    CASE name \in {"ScrollEnable", "ScrollDisable"} -> {"ActiveScrolls"}
      [] name = "SetOpacity" -> {"ColorCalcScrolls"}
      [] name \in {"TransparentEnable", "TransparentDisable"} ->
            {"TransparentScrolls"}
      [] name = "UseColorOffset" -> {"OffsetAScrolls", "OffsetBScrolls"}

C23_Ops == { "ScrollEnable", "ScrollDisable", "SetOpacity", "TransparentEnable",
             "TransparentDisable", "UseColorOffset" }

\* C23: ScrollEnable, ScrollDisable, SetOpacity, TransparentEnable and
\* TransparentDisable on layer L change at most L's bit in their one mask,
\* UseColorOffset at most L's bit in the two offset masks; every other bit,
\* every other mask, the banks' allocator state and the layers' addresses
\* stay as they were.
C23_OwnBitOnly ==
    [][ (calls' = calls + 1 /\ op'.name \in C23_Ops) =>
            /\ \A m \in MaskNames \ C23_Relevant(op'.name) : masks'[m] = masks[m]
            /\ \A m \in C23_Relevant(op'.name) :
                   masks'[m] \ {op'.layer} = masks[m] \ {op'.layer}
            /\ UNCHANGED << currentBot, currentTop, bankCycles, MapAddress,
                            CellAddress, LineAddress, KtableAddress >> ]_vars

\* UseColorOffset(OffsetA) on NBG0 after an allocation and a user-set cell
\* address: NBG0 joined NBG3 in OffsetAScrolls.
C23_Witness ==
    /\ op.name = "UseColorOffset"
    /\ op.layer = "NBG0"
    /\ masks.OffsetAScrolls = {"NBG0", "NBG3"}
    /\ masks.OffsetBScrolls = {"NBG3"}
    /\ currentBot[A0] # bankBot[A0]
    /\ CellAddress["NBG0"] # Unallocated

\* C24: no layer's bit is set in both OffsetAScrolls and OffsetBScrolls.
C24_OneChannelPerLayer == masks.OffsetAScrolls \cap masks.OffsetBScrolls = {}

(***************************************************************************)
(* C25, C26.  SetOpacity.                                                  *)
(***************************************************************************)
\* The last operation was SetOpacity with an opacity in 0.0 .. 1.0 (1.0 out).
C25_Blending ==
    /\ op.name = "SetOpacity"
    /\ op.opacity >= 0
    /\ op.opacity < FxpOne

\* floor(n x opacity), opacity given by its raw value
C25_Floor(n, raw) == (n * raw) \div FxpOne

\* C25 (amended): for every opacity o with 0 <= o < 1.0, SetOpacity passes to
\* slColRate, for its own screen, the ratio 31 - floor(32 x o), which lies in
\* 0..31 and is 15 for o = 0.5.
C25_RatioFromOpacity ==
    C25_Blending =>
        /\ maskWrites # << >>
        /\ maskWrites[1].reg = "slColRate"
        /\ maskWrites[1].screen = op.layer
        /\ maskWrites[1].value = 31 - C25_Floor(32, op.opacity)
        /\ maskWrites[1].value \in 0..31
        /\ op.opacity = FxpOne \div 2 => maskWrites[1].value = 15

\* C25 as stated: the ratio is floor(31 x (1 - o)).
C25_Original ==
    C25_Blending =>
        /\ maskWrites # << >>
        /\ maskWrites[1].reg = "slColRate"
        /\ maskWrites[1].value = C25_Floor(31, FxpOne - op.opacity)
        /\ maskWrites[1].value \in 0..31

\* Opacity 0.03 (raw 1966): the ratio passed is 31, floor(31 x 0.97) is 30.
C25_Witness ==
    /\ C25_Blending
    /\ op.opacity = 1966
    /\ maskWrites[1].value = 31
    /\ C25_Floor(31, FxpOne - op.opacity) = 30

\* The step is a call of SetOpacity.
C26_Call == calls' = calls + 1 /\ op'.name = "SetOpacity"

\* The step repeats the SetOpacity call before it.
C26_Repeat ==
    /\ C26_Call
    /\ op.name = "SetOpacity"
    /\ op'.layer = op.layer
    /\ op'.opacity = op.opacity

\* C26: SetOpacity(o) on layer L clears L's bit in ColorCalcScrolls when
\* o >= 1.0, sets it when 0 <= o < 1.0, and for o < 0 changes no mask and
\* writes no register; a call with a larger opacity below 1.0 never raises the
\* ratio of the call before it on the same layer; repeating a call leaves the
\* masks, the registers and the values written unchanged.
C26_OpacitySwitch ==
    /\ [][ C26_Call =>
            /\ op'.opacity >= FxpOne =>
                   masks'.ColorCalcScrolls = masks.ColorCalcScrolls \ {op'.layer}
            /\ (op'.opacity >= 0 /\ op'.opacity < FxpOne) =>
                   masks'.ColorCalcScrolls =
                       masks.ColorCalcScrolls \cup {op'.layer}
            /\ op'.opacity < 0 =>
                   /\ masks' = masks
                   /\ regs' = regs
                   /\ maskWrites' = << >> ]_vars
    /\ [][ ( /\ C26_Call
             /\ C25_Blending
             /\ op'.layer = op.layer
             /\ op'.opacity >= op.opacity
             /\ op'.opacity < FxpOne ) =>
                regs'.rate[op.layer] <= regs.rate[op.layer] ]_vars
    /\ [][ C26_Repeat =>
            /\ masks' = masks
            /\ regs' = regs
            /\ maskWrites' = maskWrites ]_vars

\* SetOpacity(1.0) on NBG0 after SetOpacity of about 0.5: the ratio 15 stays
\* in the register, the layer's bit is cleared.
C26_Witness ==
    /\ op.name = "SetOpacity"
    /\ op.layer = "NBG0"
    /\ op.opacity = FxpOne
    /\ regs.rate["NBG0"] = 15
    /\ "NBG0" \notin masks.ColorCalcScrolls
    /\ maskWrites = << Push("slColorCalcOn", noScreen, masks.ColorCalcScrolls) >>

(***************************************************************************)
(* C27.  Allocation failures inside layer operations.                      *)
(***************************************************************************)
\* The last operation was a layer operation whose allocation failed.
C27_LoadFailed ==
    /\ op.name = "LoadTilemap"
    /\ ret \in {"map", "cell"}
    /\ attempts # << >>
    /\ attempts[Len(attempts)].ret = NULL

C27_TableFailed ==
    /\ op.name = "SetRotationMode"
    /\ attempts # << >>
    /\ attempts[Len(attempts)].ret = NULL

\* C27: every allocation failure reached through LoadTilemap's map or cell
\* auto-allocation or through SetRotationMode's coefficient-table allocation
\* is reported, and the operation neither stores the null address nor hands
\* it to the hardware.
C27_FailureReportedAndDropped ==
    /\ C27_LoadFailed =>
        /\ reports # << >>
        /\ MapAddress[op.layer] # NULL
        /\ CellAddress[op.layer] # NULL
    /\ C27_TableFailed =>
        /\ reports # << >>
        /\ KtableAddress # NULL
        /\ \A i \in DOMAIN maskWrites : maskWrites[i].value # NULL

(***************************************************************************)
(* C28.  A rejected ScrollEnable.                                          *)
(***************************************************************************)
\* The last operation was a ScrollEnable the display rejected.
C28_Rejected == op.name = "ScrollEnable" /\ ret < 0

\* C28: when slScrAutoDisp rejects the pattern pushed by ScrollEnable, the
\* failure is reported exactly once and ActiveScrolls keeps the layer's bit;
\* the next ScrollEnable or ScrollDisable of another layer pushes a mask that
\* still contains the rejected layer.
C28_RejectedEnableKept ==
    /\ [][ (calls' = calls + 1 /\ C28_Rejected') =>
            /\ reports' = << RegistrationFailed >>
            /\ masks'.ActiveScrolls = masks.ActiveScrolls \cup {op'.layer}
            /\ maskWrites' =
                   << Push("slScrAutoDisp", noScreen, masks'.ActiveScrolls) >> ]_vars
    /\ [][ ( /\ C28_Rejected
             /\ calls' = calls + 1
             /\ op'.name \in {"ScrollEnable", "ScrollDisable"}
             /\ op'.layer # op.layer ) =>
                /\ maskWrites'[1].reg = "slScrAutoDisp"
                /\ op.layer \in maskWrites'[1].value
                /\ op.layer \in masks'.ActiveScrolls ]_vars

\* NBG3 is disabled after NBG0's ScrollEnable was rejected: the mask pushed
\* for NBG3 holds NBG0, which the display never accepted.
C28_Witness ==
    /\ op.name = "ScrollDisable"
    /\ op.layer = "NBG3"
    /\ maskWrites = << Push("slScrAutoDisp", noScreen, {"NBG0", "SPR"}) >>
    /\ regs.ActiveScrolls = {"NBG3", "SPR"}
    /\ calls = 2

(***************************************************************************)
(* C29.  Debug::Assert.                                                    *)
(***************************************************************************)
\* C29: once an Assert is raised nothing runs after it: no operation raises
\* a second Assert, and no step follows a state in which one was raised.
C29_AssertHalts ==
    /\ [](Len(reports) <= 1)
    /\ [][reports = << >>]_vars

(***************************************************************************)
(* C30.  Two callers of Allocate on one bank.                              *)
(***************************************************************************)
C30_BothDone == \A p \in Callers : callers[p].pc = "done"

C30_Serial == \A p \in Callers : callers[p].alone

C30_GrantedTo(p) == callers[p].myAddress # NULL

C30_Region(p) == [addr |-> callers[p].myAddress, size |-> callers[p].size]

\* What the granted calls add to the bump offset and to the cycle counter.
C30_Bytes(p) ==
    IF C30_GrantedTo(p) THEN Add32(callers[p].size, callers[p].addrOffset) ELSE 0

C30_Cycles(p) == IF C30_GrantedTo(p) THEN callers[p].cycles ELSE 0

C30_Disjoint ==
    (C30_GrantedTo(1) /\ C30_GrantedTo(2)) =>
        ~Overlap(C30_Region(1), C30_Region(2))

C30_BothUpdates ==
    /\ currentBot[A0] = bankBot[A0] + C30_Bytes(1) + C30_Bytes(2)
    /\ bankCycles[A0] = initBankCycles[A0] + C30_Cycles(1) + C30_Cycles(2)

\* C30: Allocate's check-then-advance is not atomic.  When the two calls run
\* one after the other, in either order, the regions granted are disjoint
\* and the bump offset and the cycle counter hold the sum of both updates;
\* only interleaved calls reach a state where that fails (C30_RaceSameRegion,
\* C30_RaceLostUpdate).
C30_SerialCallsAreSafe ==
    (C30_BothDone /\ C30_Serial) => (C30_Disjoint /\ C30_BothUpdates)

\* Interleaved calls of 16 and 48 bytes were both granted the same address.
C30_RaceSameRegion ==
    /\ C30_BothDone
    /\ ~C30_Serial
    /\ callers[1].size = 16
    /\ callers[2].size = 48
    /\ callers[1].myAddress = VDP2_VRAM_A0
    /\ callers[2].myAddress = VDP2_VRAM_A0

\* Interleaved calls were granted disjoint regions, and one of the two
\* updates of the bump offset or of the cycle counter was lost.
C30_RaceLostUpdate ==
    /\ C30_BothDone
    /\ ~C30_Serial
    /\ callers[1].size = 16
    /\ callers[2].size = 48
    /\ C30_GrantedTo(1) /\ C30_GrantedTo(2)
    /\ C30_Disjoint
    /\ ~C30_BothUpdates

\* The two calls ask for sizes the bank can hold.
C30_SizesFit == \A p \in Callers : callers[p].size \in 0..Capacity(A0)

(***************************************************************************)
(* C31: GetPageAddress(index) returns nullptr whenever the requested page  *)
(* lies outside the layer's map data, and when the layer has no map; and   *)
(* returns an address inside the layer's map region otherwise.             *)
(***************************************************************************)
\* The bytes of map data a layer holds: what the caller declared with
\* SetMapAddress, else what the loaded geometry takes.
C31_MapBytes(L) ==
    IF MapAllocSize[L] >= 0 THEN MapAllocSize[L] ELSE MapNeed(Info[L])

\* The bytes of one page of the layer's pattern name table.
C31_PageBytes(L) ==
    2048 * (IF Info[L].CharSize = CHAR_SIZE_1x1 THEN 4 ELSE 1)
         * (IF Info[L].MapMode = PNB_2WORD THEN 2 ELSE 1)

\* Page index lies within the layer's map data.
C31_PageInside(L, index) ==
    /\ MapAddress[L] >= VDP2_VRAM_A0
    /\ (index + 1) * C31_PageBytes(L) <= C31_MapBytes(L)

\* C31 as stated: nullptr for a page outside the map data or without a map,
\* an address inside the map region otherwise.  The code tests only
\* MapAddress, so a page past the end of the map gets an address.
C31_PageWithinMap ==
    op.name = "GetPageAddress" =>
        IF C31_PageInside(op.layer, op.index)
        THEN /\ ret >= MapAddress[op.layer]
             /\ ret < MapAddress[op.layer] + C31_MapBytes(op.layer)
        ELSE ret = NULL

\* What the code does keep: nullptr exactly when the layer has no map
\* address, and otherwise the start of page index counted from MapAddress.
C31_NullOnlyWithoutMap ==
    op.name = "GetPageAddress" =>
        IF MapAddress[op.layer] < VDP2_VRAM_A0 THEN ret = NULL
        ELSE ret = MapAddress[op.layer] + op.index * C31_PageBytes(op.layer)

\* A loaded layer was asked for a page past the end of its map data.
C31_PagePastEnd ==
    /\ op.name = "GetPageAddress"
    /\ MapAddress[op.layer] >= VDP2_VRAM_A0
    /\ Info[op.layer].MapWidth > 0
    /\ ~C31_PageInside(op.layer, op.index)
    /\ ret # NULL

(***************************************************************************)
(* C32: from reset banks and with LoadTilemap alone, the rotating layer's  *)
(* auto-allocation succeeds only when RBG0 is loaded before every ordinary *)
(* layer.  Loaded first, its map and its cell data each get a bank that    *)
(* holds nothing else, also after later loads of ordinary layers; once an  *)
(* ordinary layer has auto-allocated its map, RBG0's map allocation fails  *)
(* and is reported.                                                        *)
(***************************************************************************)
\* The last operation was a load of RBG0 that asked the allocator for a map.
C32_RbgAsked ==
    /\ op.name = "LoadTilemap"
    /\ op.layer = "RBG0"
    /\ attempts # << >>
    /\ attempts[1].cycles = 8
    /\ attempts[1].boundary = MapBoundary(op.info)

\* An ordinary layer holds a map the allocator gave it.
C32_OrdinaryHasMap == \E L \in NBGs : MapAddress[L] >= VDP2_VRAM_A0

\* Every region granted to the rotating layer is alone in its bank.
C32_OwnBanks ==
    \A i, j \in 1..Len(allocs) :
        (i # j /\ allocs[i].cycles = 8) => allocs[j].bank # allocs[i].bank

\* After an ordinary layer's map, RBG0's map is refused and reported.
C32_LateRbgFails ==
    (C32_RbgAsked /\ C32_OrdinaryHasMap) =>
        /\ attempts[1].ret = NULL
        /\ ret = "map"
        /\ MapAddress["RBG0"] = NULL
        /\ reports = << "RBG Map Allocation failed: insufficient VRAM" >>

C32_LateWitness ==
    /\ C32_RbgAsked
    /\ C32_OrdinaryHasMap
    /\ ret = "map"

(***************************************************************************)
(* C33: after a LoadTilemap that auto-allocated a layer's map and cell     *)
(* regions, a second LoadTilemap of the same geometry on that layer, with  *)
(* no ClearVRAM between, reuses the regions, allocates nothing and         *)
(* completes the load without reporting a failure.                         *)
(***************************************************************************)
\* The last operation loaded a layer and auto-allocated its map and cells.
C33_AutoLoaded ==
    /\ op.name = "LoadTilemap"
    /\ ret = "loaded"
    /\ Len(attempts) >= 2
    /\ MapAddress[op.layer] = attempts[1].ret
    /\ CellAddress[op.layer] = attempts[Len(attempts)].ret

\* The step loads the same geometry on the same layer again.
C33_Reload ==
    /\ C33_AutoLoaded
    /\ op'.name = "LoadTilemap"
    /\ op'.layer = op.layer
    /\ op'.info = op.info

\* C33 as stated.  The code leaves MapAllocSize at -1 after an automatic
\* allocation, so the reload takes the branch for a caller's region and
\* finds it too small.
C33_ReloadReuses ==
    [][ C33_Reload =>
            /\ attempts' = << >>
            /\ UNCHANGED << currentBot, currentTop, bankCycles >>
            /\ UNCHANGED << MapAddress, CellAddress >>
            /\ ret' = "loaded"
            /\ reports' = << >> ]_vars

\* What the code keeps of it: the reload allocates nothing and leaves the
\* layer's addresses alone.
C33_ReloadAllocatesNothing ==
    [][ C33_Reload =>
            /\ attempts' = << >>
            /\ UNCHANGED << currentBot, currentTop, bankCycles >>
            /\ UNCHANGED << MapAddress, CellAddress >> ]_vars

\* A layer was loaded again after an automatic allocation and the load was
\* refused for its map data.
C33_ReloadRefused ==
    /\ op.name = "LoadTilemap"
    /\ ret = "map"
    /\ attempts = << >>
    /\ MapAddress[op.layer] >= VDP2_VRAM_A0
    /\ MapAllocSize[op.layer] = -1
    /\ reports = << "Tilemap Load Failed- MAP DATA exceeds existing VRAM allocation" >>

(***************************************************************************)
(* C34: ClearVRAM returns the allocator and the layers' allocation state   *)
(* to their values at process start: every bank's currentBot, currentTop   *)
(* and bankCycles, and every layer's MapAddress, CellAddress, MapAllocSize *)
(* and CellAllocSize.                                                      *)
(***************************************************************************)
\* C34 as stated.  ClearVRAM leaves bankCycles[B1] at 1 where the static
\* initialiser has 2, and it does not write the two allocation sizes.
C34_ResetIsStart ==
    op.name = "ClearVRAM" =>
        /\ currentBot = bankBot
        /\ currentTop = bankTop
        /\ bankCycles = initBankCycles
        /\ \A L \in Layers :
              /\ MapAddress[L] = Unallocated
              /\ CellAddress[L] = Unallocated
              /\ MapAllocSize[L] = -1
              /\ CellAllocSize[L] = -1

\* What the code keeps of it: the bump offsets, the tops, the cycle
\* counters of A0, A1 and B0, and the layers' addresses.
C34_ResetButB1AndSizes ==
    op.name = "ClearVRAM" =>
        /\ currentBot = bankBot
        /\ currentTop = bankTop
        /\ \A b \in Banks \ {B1} : bankCycles[b] = initBankCycles[b]
        /\ \A L \in Layers :
              MapAddress[L] = Unallocated /\ CellAddress[L] = Unallocated

\* ClearVRAM ran and a layer still carries the size of a region its caller
\* had declared before the reset.
C34_StaleSize ==
    /\ op.name = "ClearVRAM"
    /\ \E L \in Layers : MapAllocSize[L] # -1 \/ CellAllocSize[L] # -1

\* ClearVRAM ran and bank B1 has another cycle count than at process start.
C34_OtherB1Cycles ==
    /\ op.name = "ClearVRAM"
    /\ bankCycles[B1] # initBankCycles[B1]

(***************************************************************************)
(* C35: the rotation parameter table that Initialize fixes at              *)
(* VDP2_VRAM_A0 + 0x1ff00 lies outside every byte range the allocator can  *)
(* return: no successful Allocate, in any bank and of any size, covers it. *)
(***************************************************************************)
\* The granted region a holds the byte at address x (a negative size
\* stands for a length of 2^32 + size, which reaches past every address).
C35_Covers(a, x) == a.addr <= x /\ (a.size < 0 \/ x < a.addr + a.size)

\* C35 as stated.  The address lies 256 bytes below the top of bank A0,
\* which the allocator hands out up to VDP2_VRAM_A1.
C35_ParamTableOutside ==
    \A i \in 1..Len(allocs) : ~C35_Covers(allocs[i], RotationParamTable)

\* The address is one the allocator manages: inside bank A0.
C35_InsideBankA0 ==
    /\ bankBot[A0] <= RotationParamTable
    /\ RotationParamTable + 256 = bankTop[A0]

\* A request for the whole of bank A0 was granted.
C35_WholeBankGranted ==
    /\ op.name = "Allocate"
    /\ op.bank = A0
    /\ op.size = 131072
    /\ ret = VDP2_VRAM_A0

(***************************************************************************)
(* C36: for every 32-bit size and power-of-two boundary, a request whose   *)
(* padding plus size, as a sum of naturals, exceeds the bytes left in the  *)
(* bank is never granted: the wrap-around of the 32-bit sum cannot make an *)
(* oversized request succeed, nor move the bump offset past the bank top.  *)
(***************************************************************************)
\* The bytes a granted call c found free: the bank's top less the bump
\* offset the call started from (its address less its padding).
C36_WasFree(c) == currentTop[c.bank] - (c.ret - c.pad)

\* Padding plus size of the granted call c, as naturals, was within the
\* free bytes.  A negative size stands for 2^32 + size, at least 2^31,
\* which is more than any bank holds.
C36_SumFits(c) == c.size >= 0 /\ c.size + c.pad <= C36_WasFree(c)

\* C36 as stated.  Allocate compares GetAvailable with the 32-bit sum, so a
\* size near 2^32 whose sum with the padding wraps is granted.
C36_GrantedOnlyIfFits ==
    op.name = "Allocate" =>
        /\ ret # NULL =>
              C36_SumFits(attempts[1])
        /\ \A b \in Banks : currentBot[b] <= currentTop[b]

\* What the code keeps of it: the bump offset never passes the bank's top.
C36_OffsetBelowTop ==
    op.name = "Allocate" => \A b \in Banks : currentBot[b] <= currentTop[b]

\* A request of 0xFFFFFFF0 bytes was granted.
C36_WrappedGrant ==
    /\ op.name = "Allocate"
    /\ op.size = -16
    /\ ret # NULL
    /\ attempts[1].pad > 0

(***************************************************************************)
(* C37: for every geometry, GetPlaneAddress(i) - MapAddress is i times the *)
(* alignment boundary AutoAllocateMap computes for the same geometry       *)
(* (0x800, x4 for 1x1 cells, x2 for two-word entries, x4 for plane size    *)
(* 2x2 or x2 for 2x1), so every plane address of an auto-allocated map is  *)
(* a multiple of that boundary.                                            *)
(***************************************************************************)
\* The boundary as the claim spells it out.
C37_Boundary(info) ==
    2048 * (IF info.CharSize = CHAR_SIZE_1x1 THEN 4 ELSE 1)
         * (IF info.MapMode = PNB_2WORD THEN 2 ELSE 1)
         * (IF info.PlaneSize = PL_SIZE_2x2 THEN 4
            ELSE IF info.PlaneSize = PL_SIZE_2x1 THEN 2 ELSE 1)

\* Every answer of GetPlaneAddress on a layer with a map is MapAddress plus
\* index times the boundary of the layer's geometry.
C37_PlaneStride ==
    (op.name = "GetPlaneAddress" /\ MapAddress[op.layer] >= VDP2_VRAM_A0) =>
        /\ MapBoundary(Info[op.layer]) = C37_Boundary(Info[op.layer])
        /\ ret - MapAddress[op.layer] = op.index * MapBoundary(Info[op.layer])

\* The last operation loaded a layer and auto-allocated its map.
C37_MapAllocated ==
    /\ op.name = "LoadTilemap"
    /\ ret = "loaded"
    /\ attempts # << >>
    /\ attempts[1].ret = MapAddress[op.layer]

\* A plane asked of a layer right after the load that allocated its map is
\* at a multiple of the boundary.
C37_PlaneAligned ==
    (C37_MapAllocated /\ op'.name = "GetPlaneAddress" /\ op'.layer = op.layer)
        => ret' % MapBoundary(op.info) = 0

C37_PlanesOnBoundary == [] C37_PlaneStride /\ [][C37_PlaneAligned]_vars

\* The second layer's map was placed after padding, behind the first
\* layer's map, and its last plane was asked for.
C37_Witness ==
    /\ op.name = "GetPlaneAddress"
    /\ op.index = 3
    /\ MapAddress[op.layer] > VDP2_VRAM_A0
    /\ MapAddress[op.layer] < VDP2_VRAM_A1
    /\ \E i \in 1..Len(allocs) :
          /\ allocs[i].addr = MapAddress[op.layer]
          /\ i > 1
          /\ allocs[i].addr > allocs[1].addr + allocs[1].size
    /\ ret = MapAddress[op.layer] + 3 * MapBoundary(Info[op.layer])
    /\ ret % MapBoundary(Info[op.layer]) = 0

(***************************************************************************)
(* C38: GetPalOffset(p) returns exactly the palette bits that Map2VRAM ORs *)
(* into each map entry for palette id p in the layer's map mode: p << 12   *)
(* for one-word entries and p << 20 for two-word entries.                  *)
(***************************************************************************)
\* The entry Map2VRAM writes for a source entry of 0 and no cell offset:
\* the palette bits alone.
C38_PaletteBits(o) ==
    Map2VRAM([o.info EXCEPT !.MapWidth = 1, !.MapHeight = 1], << 0 >>,
             o.paloff, 0)[1]

\* C38 as stated.  For two-word entries GetPalOffset shifts by 24 where
\* Map2VRAM shifts by 20.
C38_SameBitsAsTransfer ==
    op.name = "GetPalOffset" =>
        IF op.info.MapMode # PNB_2WORD
        THEN /\ ret = op.paloff * (2 ^ 12)
             /\ ret % (2 ^ 16) = C38_PaletteBits(op)
        ELSE /\ ret = op.paloff * (2 ^ 20)
             /\ ret = C38_PaletteBits(op)

\* What the code keeps of it: the one-word half, and a two-word result
\* that is 16 times the bits Map2VRAM writes.
C38_OneWordSameBits ==
    op.name = "GetPalOffset" =>
        IF op.info.MapMode # PNB_2WORD
        THEN /\ ret = op.paloff * (2 ^ 12)
             /\ ret % (2 ^ 16) = C38_PaletteBits(op)
        ELSE ret = 16 * C38_PaletteBits(op)

\* GetPalOffset was asked for palette 1 of a two-word map.
C38_TwoWordAsked ==
    /\ op.name = "GetPalOffset"
    /\ op.info.MapMode = PNB_2WORD
    /\ op.paloff = 1
    /\ ret = 2 ^ 24

(***************************************************************************)
(* C39: SpriteLayer::SetOpacity writes no register for an opacity below    *)
(* 0.0 or above 1.0, and for every opacity in the closed range 0.0 .. 1.0  *)
(* the ratio it passes to the hardware is one of the ratios 0 .. 31.       *)
(***************************************************************************)
\* C39 as stated.  At 1.0 the raw value shifted by 11 is 32 and the code
\* passes 31 - 32.
C39_SpriteRatioInRange ==
    op.name = "SpriteSetOpacity" =>
        IF op.opacity < 0 \/ op.opacity > FxpOne
        THEN maskWrites = << >> /\ regs = regsInit
        ELSE /\ Len(maskWrites) = 1
             /\ maskWrites[1].reg = "slColRate"
             /\ maskWrites[1].value \in 0..31

\* What the code keeps of it: no write outside 0.0 .. 1.0, and a ratio in
\* 0 .. 31 for every opacity from 0.0 up to, but not including, 1.0.
C39_SpriteRatioBelowOne ==
    op.name = "SpriteSetOpacity" =>
        IF op.opacity < 0 \/ op.opacity > FxpOne
        THEN maskWrites = << >> /\ regs = regsInit
        ELSE /\ Len(maskWrites) = 1
             /\ maskWrites[1].reg = "slColRate"
             /\ op.opacity < FxpOne => maskWrites[1].value \in 0..31
             /\ op.opacity = FxpOne => maskWrites[1].value = -1

\* SpriteLayer::SetOpacity was called with opacity 1.0 and wrote a ratio.
C39_FullOpacity ==
    /\ op.name = "SpriteSetOpacity"
    /\ op.opacity = FxpOne
    /\ maskWrites # << >>

(***************************************************************************)
(* C40: for every NUL-terminated text, texts that end with a newline or    *)
(* hold consecutive newlines included, and valid arguments (fromLeft <     *)
(* fromRight, x < fromRight), PrintWithWrap terminates, never reads a      *)
(* character beyond the terminating NUL, prints every character at a       *)
(* column below fromRight, and returns one plus the number of line breaks  *)
(* it made.                                                                *)
(***************************************************************************)
C40_Valid == op.fromLeft < op.fromRight /\ op.x < op.fromRight

\* The index of the terminating NUL in the text.
C40_NulAt == Len(op.text)

\* The line breaks made, seen from outside: the rows the prints moved
\* down from row y.
C40_Breaks ==
    IF ret.prints = << >> THEN 0 ELSE ret.prints[Len(ret.prints)].y - op.y

\* The call returned, read nothing behind the NUL, printed only left of
\* fromRight and counted its lines.
C40_Regular ==
    /\ ret.outcome = "returned"
    /\ ret.reads <= C40_NulAt
    /\ \A i \in 1..Len(ret.prints) : ret.prints[i].x < op.fromRight
    /\ ret.line = 1 + C40_Breaks

\* C40 as stated.  After the newline that ends a text the loop steps over
\* the NUL and goes on reading.
C40_WrapStaysInText ==
    (op.name = "PrintWithWrap" /\ C40_Valid) => C40_Regular

\* What the code keeps of it: the columns stay below fromRight, a text
\* without a newline is printed as stated, and only a text that ends with
\* a newline is read past its NUL.
C40_WrapUnlessFinalNewline ==
    (op.name = "PrintWithWrap" /\ C40_Valid) =>
        /\ \A i \in 1..Len(ret.prints) : ret.prints[i].x < op.fromRight
        /\ (\A k \in 1..Len(op.text) : op.text[k] # NL) => C40_Regular
        /\ ~C40_Regular => (op.text # << >> /\ op.text[Len(op.text)] = NL)

\* A text that ends with a newline was printed and the loop read the byte
\* behind the terminating NUL.
C40_ReadBehindNul ==
    /\ op.name = "PrintWithWrap"
    /\ C40_Valid
    /\ op.text = << "a", NL >>
    /\ ret.reads > C40_NulAt

\* The same text with no known memory behind it: the loop ran off it.
C40_RanOff ==
    /\ op.name = "PrintWithWrap"
    /\ C40_Valid
    /\ ret.outcome = "fault"

====
